---- MODULE Spec2Model ----
(***************************************************************************)
(* A model of the view-state router of the Historic Survey Map             *)
(* (handleHashChange and the handlers around it), of the browser's         *)
(* location.hash / hashchange mechanism that drives it, and of the         *)
(* one-time spatial membership index it reads.                             *)
(*                                                                         *)
(* Strings are TLA+ strings, read character by character with SubSeq, so   *)
(* that startsWith, split, parseInt, encodeURIComponent and                *)
(* decodeURIComponent are computed the way the JavaScript computes them.   *)
(***************************************************************************)
EXTENDS Integers, Sequences, FiniteSets, TLC

(***************************************************************************)
(* JavaScript values that are not strings or numbers                       *)
(***************************************************************************)
\* null / undefined where the code only tests truthiness or compares with ===
Null == "<null>"
\* the exception decodeURIComponent throws on a malformed escape
URIError == "<URIError>"
\* NaN (of parseInt and of Number): a number that is no BLDG_ID (the ids are
\* positive), that no token of the model parses to and that is no coordinate
\* (the coordinates of the model are 0 and up)
NaN == -1

\* the marker handleHashChange stores for "all district boundaries visible"
ALL_DISTRICTS == "__ALL_DISTRICTS__"

\* JavaScript truthiness of a string-or-null value
Truthy(v) == v # Null /\ v # ""

(***************************************************************************)
(* String primitives                                                       *)
(***************************************************************************)
CharAt(s, i) == SubSeq(s, i, i)

\* String.prototype.startsWith
StartsWith(s, p) == Len(s) >= Len(p) /\ SubSeq(s, 1, Len(p)) = p

\* the position of the first "/" at or after position i, or Len(s)+1
RECURSIVE NextSlash(_, _)
NextSlash(s, i) ==
    IF i > Len(s) THEN Len(s) + 1
    ELSE IF CharAt(s, i) = "/" THEN i
    ELSE NextSlash(s, i + 1)

\* s.split('/') as a sequence of strings
RECURSIVE SplitFrom(_, _)
SplitFrom(s, i) ==
    LET j == NextSlash(s, i)
    IN  IF j > Len(s) THEN << SubSeq(s, i, Len(s)) >>
        ELSE << SubSeq(s, i, j - 1) >> \o SplitFrom(s, j + 1)

Split(s) == SplitFrom(s, 1)

\* s.split('/')[k] with JavaScript's 0-based index; Null stands for undefined
SplitAt(s, k) == IF k + 1 <= Len(Split(s)) THEN Split(s)[k + 1] ELSE Null

Digits == "0123456789"

IsDigit(c) == \E d \in 1..10 : CharAt(Digits, d) = c

DigitVal(c) == (CHOOSE d \in 1..10 : CharAt(Digits, d) = c) - 1

\* the value of the run of digits of s that starts at position i, given the
\* value acc of the digits already read
RECURSIVE DigitRun(_, _, _)
DigitRun(s, i, acc) ==
    IF i <= Len(s) /\ IsDigit(CharAt(s, i))
    THEN DigitRun(s, i + 1, acc * 10 + DigitVal(CharAt(s, i)))
    ELSE acc

RECURSIVE SkipSpaces(_, _)
SkipSpaces(s, i) ==
    IF i <= Len(s) /\ CharAt(s, i) = " " THEN SkipSpaces(s, i + 1) ELSE i

\* parseInt(s, 10): leading blanks, an optional sign, then the longest run of
\* digits; NaN when no digit stands there (also for undefined).
ParseInt(s) ==
    IF s = Null THEN NaN
    ELSE LET i == SkipSpaces(s, 1)
             neg == i <= Len(s) /\ CharAt(s, i) = "-"
             j == IF i <= Len(s) /\ CharAt(s, i) \in {"-", "+"} THEN i + 1 ELSE i
         IN  IF j <= Len(s) /\ IsDigit(CharAt(s, j))
             THEN (IF neg THEN 0 - DigitRun(s, j, 0) ELSE DigitRun(s, j, 0))
             ELSE NaN

(***************************************************************************)
(* encodeURIComponent / decodeURIComponent over printable ASCII            *)
(***************************************************************************)
\* the printable ASCII characters of the model: codes 32 (space) to 95, and 97
\* to 126 (code 96, the backquote, cannot be written in a TLA+ string and is
\* outside the model's alphabet)
AsciiLow == " !\"#$%&'()*+,-./0123456789:;<=>?@ABCDEFGHIJKLMNOPQRSTUVWXYZ[\\]^_"

AsciiHigh == "abcdefghijklmnopqrstuvwxyz{|}~"

CodeOf(c) ==
    IF \E i \in 1..Len(AsciiLow) : CharAt(AsciiLow, i) = c
    THEN (CHOOSE i \in 1..Len(AsciiLow) : CharAt(AsciiLow, i) = c) + 31
    ELSE (CHOOSE i \in 1..Len(AsciiHigh) : CharAt(AsciiHigh, i) = c) + 96

HasChar(code) == (code >= 32 /\ code <= 95) \/ (code >= 97 /\ code <= 126)

CharOf(code) ==
    IF code <= 95 THEN CharAt(AsciiLow, code - 31) ELSE CharAt(AsciiHigh, code - 96)

\* the characters encodeURIComponent leaves as they are
Unreserved == "ABCDEFGHIJKLMNOPQRSTUVWXYZabcdefghijklmnopqrstuvwxyz0123456789-_.!~*'()"

IsUnreserved(c) == \E i \in 1..Len(Unreserved) : CharAt(Unreserved, i) = c

HexDigits == "0123456789ABCDEF"

HexLower == "0123456789abcdef"

IsHex(c) == \E i \in 1..16 : CharAt(HexDigits, i) = c \/ CharAt(HexLower, i) = c

HexVal(c) == (CHOOSE i \in 1..16 : CharAt(HexDigits, i) = c \/ CharAt(HexLower, i) = c) - 1

\* "%XX" for one character, upper-case hex as encodeURIComponent writes it
PercentEncode(c) ==
    "%" \o CharAt(HexDigits, (CodeOf(c) \div 16) + 1)
        \o CharAt(HexDigits, (CodeOf(c) % 16) + 1)

RECURSIVE EncodeFrom(_, _)
EncodeFrom(s, i) ==
    IF i > Len(s) THEN ""
    ELSE (IF IsUnreserved(CharAt(s, i)) THEN CharAt(s, i) ELSE PercentEncode(CharAt(s, i)))
         \o EncodeFrom(s, i + 1)

\* a slip: the payload is put into the hash as it is
EncodeNothing(s) == s

encodeURIComponent(s) == EncodeFrom(s, 1)

\* decodeURIComponent: every "%XX" becomes the character of that code; a "%"
\* that is not followed by two hex digits throws URIError, and so does a code
\* of 0x80 or more that no continuation byte follows.  Codes outside the
\* model's alphabet (control characters, the backquote) occur in no token of
\* the model; they are given the same result here.
RECURSIVE DecodeFrom(_, _)
DecodeFrom(s, i) ==
    IF i > Len(s) THEN ""
    ELSE IF CharAt(s, i) # "%"
         THEN (LET rest == DecodeFrom(s, i + 1)
               IN  IF rest = URIError THEN URIError ELSE CharAt(s, i) \o rest)
         ELSE IF i + 2 > Len(s) \/ ~IsHex(CharAt(s, i + 1)) \/ ~IsHex(CharAt(s, i + 2))
              THEN URIError
              ELSE LET code == HexVal(CharAt(s, i + 1)) * 16 + HexVal(CharAt(s, i + 2))
                       rest == DecodeFrom(s, i + 3)
                   IN  IF ~HasChar(code) \/ rest = URIError THEN URIError
                       ELSE CharOf(code) \o rest

\* decodeURIComponent(undefined) is the string "undefined"
decodeURIComponent(s) == IF s = Null THEN "undefined" ELSE DecodeFrom(s, 1)

(***************************************************************************)
(* The input collections (fetched once, immutable afterwards)              *)
(***************************************************************************)
\* A polygon of the model is an axis-parallel rectangle on an integer grid and
\* a centroid a grid point; Null is a centroid that could not be computed.
Rect(x1, y1, x2, y2) == [x1 |-> x1, y1 |-> y1, x2 |-> x2, y2 |-> y2]

\* the visible map bounds the model moves between: everything, the west of
\* the map (features 1 and 2) and a stretch without any feature
WholeMap == Rect(0, 0, 10, 10)

MapViews == { WholeMap, Rect(0, 0, 1, 2), Rect(5, 5, 6, 6) }

\* national_districts.geojson: "Ridge" overlaps "Elm Park" on the line x = 2
nationalDistricts ==
    << [NAME |-> "Ridge", geometry |-> Rect(2, 0, 4, 2)] >>

\* chicago_districts.geojson
chicagoDistricts ==
    << [NAME |-> "Elm Park", geometry |-> Rect(0, 0, 2, 2)] >>

\* survey_refactor1_filtered.geojson, after preprocessSurveyData: the id, the
\* formatted address (house number F_ADD1, street name ST_NAME1 and street
\* type), the cached centroid, the categorical attributes ("" for
\* an absent one) and whether it is an individual landmark or contributes to the
\* Ridge Historic District
surveyData ==
    << [BLDG_ID |-> 1, address |-> "100 MAIN ST", F_ADD1 |-> 100, ST_NAME1 |-> "MAIN",
         centroid |-> <<1, 1>>,
        CHRS_Color |-> "Red", decade |-> "1890s", CHRS_Architect |-> "Wright",
        CHRS_Style |-> "Prairie", CHRS_Address |-> "100 MAIN", landmark |-> TRUE],
       [BLDG_ID |-> 2, address |-> "50 MAIN ST", F_ADD1 |-> 50, ST_NAME1 |-> "MAIN",
         centroid |-> <<1, 2>>,
        CHRS_Color |-> "Green", decade |-> "1920s", CHRS_Architect |-> "",
        CHRS_Style |-> "Prairie", CHRS_Address |-> "50 MAIN", landmark |-> FALSE],
       [BLDG_ID |-> 3, address |-> "100 MAIN AVE", F_ADD1 |-> 100, ST_NAME1 |-> "MAIN",
         centroid |-> <<2, 1>>,
        CHRS_Color |-> "Red", decade |-> "", CHRS_Architect |-> "Wright",
        CHRS_Style |-> "", CHRS_Address |-> "", landmark |-> FALSE],
       [BLDG_ID |-> 4, address |-> "9 OAK ST", F_ADD1 |-> 9, ST_NAME1 |-> "OAK",
         centroid |-> <<3, 1>>,
        CHRS_Color |-> "Green", decade |-> "1890s", CHRS_Architect |-> "",
        CHRS_Style |-> "", CHRS_Address |-> "9 OAK", landmark |-> TRUE],
       [BLDG_ID |-> 5, address |-> "7 ELM CT", F_ADD1 |-> 7, ST_NAME1 |-> "ELM",
         centroid |-> <<9, 9>>,
        CHRS_Color |-> "", decade |-> "", CHRS_Architect |-> "",
        CHRS_Style |-> "", CHRS_Address |-> "7 ELM", landmark |-> FALSE],
       [BLDG_ID |-> 6, address |-> "8 ELM CT", F_ADD1 |-> 8, ST_NAME1 |-> "ELM",
         centroid |-> Null,
        CHRS_Color |-> "Red", decade |-> "1920s", CHRS_Architect |-> "",
        CHRS_Style |-> "", CHRS_Address |-> "8 ELM", landmark |-> FALSE] >>

\* allDistricts = [...nationalDistricts.features, ...chicagoDistricts.features]
allDistricts == nationalDistricts \o chicagoDistricts

BldgIds == { surveyData[i].BLDG_ID : i \in 1..Len(surveyData) }

DistrictNames == { allDistricts[i].NAME : i \in 1..Len(allDistricts) }

\* surveyData.features.find(f => f.properties.BLDG_ID === bldgId) !== undefined
FeatureExists(bldgId) == bldgId \in BldgIds

\* allDistricts.find(f => f.properties.NAME === name) !== undefined
DistrictExists(name) == name \in DistrictNames

FeatureById(bldgId) ==
    surveyData[CHOOSE i \in 1..Len(surveyData) : surveyData[i].BLDG_ID = bldgId]

(***************************************************************************)
(* The spatial membership index built by loadDataSources                   *)
(***************************************************************************)
\* turf.booleanPointInPolygon, boundary included; every comparison with a
\* NaN coordinate is false
iBooleanPointInPolygon(pt, geom) ==
    /\ pt[1] # NaN /\ pt[2] # NaN
    /\ geom.x1 <= pt[1] /\ pt[1] <= geom.x2
    /\ geom.y1 <= pt[2] /\ pt[2] <= geom.y2

\* the inner loop over surveyData.features for one district: the ids, in
\* feature order, of the features whose centroid lies in its geometry
RECURSIVE FeaturesInside(_, _)
FeaturesInside(geom, i) ==
    IF i > Len(surveyData) THEN << >>
    ELSE (IF /\ surveyData[i].centroid # Null
             /\ iBooleanPointInPolygon(surveyData[i].centroid, geom)
          THEN << surveyData[i].BLDG_ID >> ELSE << >>)
         \o FeaturesInside(geom, i + 1)

\* districtFeatureMap after the build: every district of that name pushes
RECURSIVE PushedBy(_, _)
PushedBy(name, k) ==
    IF k > Len(allDistricts) THEN << >>
    ELSE (IF allDistricts[k].NAME = name
          THEN FeaturesInside(allDistricts[k].geometry, 1) ELSE << >>)
         \o PushedBy(name, k + 1)

BuildDistrictFeatureMap == [ name \in DistrictNames |-> PushedBy(name, 1) ]

InSeq(x, seq) == \E i \in 1..Len(seq) : seq[i] = x

\* the districts, in allDistricts order, whose geometry holds the centroid of
\* feature id
ClaimingDistricts(id) ==
    { k \in 1..Len(allDistricts) :
        InSeq(id, FeaturesInside(allDistricts[k].geometry, 1)) }

\* which district of the claiming ones the reverse index keeps: the code sets
\* bldgIdToDistrict[id] only "if not already present so first match wins"
FirstMatch(ks) == CHOOSE k \in ks : \A j \in ks : k <= j

\* bldgIdToDistrict after the build
BuildBldgIdToDistrict ==
    [ id \in { b \in BldgIds : ClaimingDistricts(b) # {} } |->
        allDistricts[FirstMatch(ClaimingDistricts(id))].NAME ]

(***************************************************************************)
(* The application state                                                   *)
(***************************************************************************)
VARIABLES
    isDataLoaded,           \* loading flag
    locationHash,           \* window.location.hash
    pendingHashChanges,     \* hashchange events the browser has queued
    appHistory,             \* the custom history tracker
    lastListHash,           \* the last non-property hash resolved
    activeDistrictContext,  \* Null, ALL_DISTRICTS or a district name
    districtFeatureMap,     \* district NAME -> ids of the features inside
    bldgIdToDistrict,       \* BLDG_ID -> district NAME
    selectedBuildingLayer,  \* the highlighted buildings' ids (none or one)
    selectedDistrictLayer,  \* the highlighted district's name, or Null
    districtsLayerShown,    \* whether the two district layers are on the map
    sheetPanel,             \* what sheetContent shows
    rightSheetCard,         \* the ids (none or one) the right sheet shows a card of
    surveyLayer,            \* mode, filter value and ids of the survey layer
    searchInputValue,       \* searchInput.value
    isMapFollowEnabled,     \* the "Follow map" toggle
    districtsTimers,        \* pending 40 ms updates scheduled by #districts
    showPropertyTimers,     \* pending 180 ms navigations of attemptShowProperty
    refreshTimers,          \* pending 40 ms updates scheduled by refreshPanel
    visited,                \* history variable: the hashes resolved, in order
    roundTrip,              \* a route on its way through serialising and parsing
    currentDropdownResults, \* the ids of the suggestions under the search box
    highlightOrigin,        \* Null or the key of the group that is highlighted
    highlightLayer,         \* the ids that have a highlight circle on the map
    highlightControlButton, \* Null or the key of the button shown as active
    highlightFeatureCache,  \* group key -> ids of the features of the group
    highlightCall,          \* history variable: the last highlight operation
    mapMoveTimer,           \* the pending 200 ms timers of the moveend listener
    indexBuild,             \* the spatial index while initDistrictIndices runs
    searchRun,              \* a query on its way through the search functions
    mapBounds,              \* what getVisibleMapBounds() returns
    currentNavigationList   \* the ids of the list the sheet shows, in its order

highlightVars == << highlightOrigin, highlightLayer, highlightControlButton,
                    highlightFeatureCache, highlightCall >>

\* what a panel builder writes besides the panel
builtVars == << highlightOrigin, highlightLayer, highlightControlButton,
                highlightFeatureCache, currentNavigationList >>

\* what the router and refreshPanel leave alone
restVars == << highlightCall, mapMoveTimer, indexBuild, searchRun, mapBounds >>

asideVars == << highlightVars, mapMoveTimer, indexBuild, searchRun, mapBounds,
                currentNavigationList >>

vars == << isDataLoaded, locationHash, pendingHashChanges, appHistory,
           lastListHash, activeDistrictContext, districtFeatureMap,
           bldgIdToDistrict, selectedBuildingLayer, selectedDistrictLayer,
           districtsLayerShown, sheetPanel, rightSheetCard, surveyLayer,
           searchInputValue, isMapFollowEnabled, districtsTimers,
           showPropertyTimers, refreshTimers, visited, roundTrip,
                    currentDropdownResults, asideVars >>

(***************************************************************************)
(* Bounds of the model                                                     *)
(***************************************************************************)
\* the user acts only while at most MaxNav hashes have been resolved
MaxNav == 2

\* how many hashes a behaviour of the long-session specification resolves
CapRuns == 302

\* the longest payload (name, query, value) and the largest id of the routes
\* that are serialised and parsed back
MaxPayloadLen == 2

MaxRouteId == 12

\* the cap of appHistory
HistoryCap == 300

\* how many moveend events the map sends in a behaviour
MaxMoves == 3

Last(seq) == seq[Len(seq)]

(***************************************************************************)
(* Variants of the code with one plausible slip each; the properties are   *)
(* checked to tell the code from them                                      *)
(***************************************************************************)
\* a push that does not look at the top of the stack
PushAlways(hist, hash) ==
    IF Len(hist) + 1 > HistoryCap THEN Tail(Append(hist, hash)) ELSE Append(hist, hash)

\* a push that avoids every duplicate, not only one on top of the stack
PushUnlessInStack(hist, hash) ==
    IF \E k \in 1..Len(hist) : hist[k] = hash THEN hist
    ELSE (LET pushed == Append(hist, hash)
          IN  IF Len(pushed) > HistoryCap THEN Tail(pushed) ELSE pushed)

\* a push that forgets to drop the oldest entry above the cap
PushWithoutEviction(hist, hash) ==
    IF Len(hist) = 0 \/ Last(hist) # hash THEN Append(hist, hash) ELSE hist

\* a setHighlight that draws the new circles without removing what is shown
SetHighlightOverlay(hl, features, origin, controlButton) ==
    IF features = {} THEN hl
    ELSE [hl EXCEPT !.button = controlButton, !.origin = origin,
                    !.layer = @ \cup features]

\* a toggle that highlights the group of the button even when it is active
ToggleAlwaysSets(hl, key) ==
    IF key = "" THEN hl
    ELSE [hl EXCEPT !.origin = key, !.button = key,
                    !.layer = IF key \in DOMAIN hl.cache THEN hl.cache[key] ELSE {}]

\* a moveend listener that schedules without cancelling the pending timer
KeepPending(timer) == timer

\* an inner loop that lists every feature with a centroid, inside or not
IndexFeatureUnchecked(build, name, geom, id) ==
    IF build.centroids[id] = Null THEN build
    ELSE [build EXCEPT !.forward[name] = Append(@, id)]

\* a view filter whose catch keeps the feature it could not place
CentroidInViewOrMissing(centroid, bounds) ==
    IF centroid = Null THEN TRUE
    ELSE iBooleanPointInPolygon(centroid, bounds)

\* a reverse index in which the district indexed last wins
SetAlways(reverse, id, name) ==
    [ e \in DOMAIN reverse \cup {id} |-> IF e = id THEN name ELSE reverse[e] ]

\* a sort that is not stable: an item goes in front of the items that score
\* the same
InsertBeforeEqual(sorted, item) ==
    LET before == Cardinality({ k \in 1..Len(sorted) : sorted[k].score < item.score })
    IN  SubSeq(sorted, 1, before) \o << item >> \o SubSeq(sorted, before + 1, Len(sorted))

\* a preserve test that keeps a set context on every route, not only on a
\* property route
PreserveWheneverContextSet(hash, prevHash, ctx) ==
    \/ StartsWith(hash, "#district/")
    \/ Truthy(ctx)
    \/ (prevHash # Null /\ StartsWith(prevHash, "#district/") /\ StartsWith(hash, "#property/"))

\* a resolution that leaves the suggestions open
KeepSearchDropdown(st) == st

\* a home test that accepts every previous hash
IsFromAnyRoute(prevHash) == TRUE

(***************************************************************************)
(* handleHashChange, step by step                                          *)
(***************************************************************************)
\* lines 941-948: push unless the top is this hash; drop the oldest above the cap
PushHistory(hist, hash) ==
    IF Len(hist) = 0 \/ Last(hist) # hash
    THEN (LET pushed == Append(hist, hash)
          IN  IF Len(pushed) > HistoryCap THEN Tail(pushed) ELSE pushed)
    ELSE hist

\* line 966
PrevHashOf(hist) == IF Len(hist) >= 2 THEN hist[Len(hist) - 1] ELSE Null

\* "prevHash && prevHash.startsWith(p)"
PrevStartsWith(prevHash, p) == prevHash # Null /\ StartsWith(prevHash, p)

\* lines 935-939
NextLastListHash(old, hash) ==
    IF hash # "" /\ ~StartsWith(hash, "#property/") /\ hash # "#" THEN hash ELSE old

\* findDistrictNameForProperty: the reverse index, else a scan of the forward
\* map in key order (the keys were inserted in allDistricts order)
findDistrictNameForProperty(bldgId, rev, fwd) ==
    IF bldgId \in DOMAIN rev THEN rev[bldgId]
    ELSE LET ks == { k \in 1..Len(allDistricts) :
                       /\ allDistricts[k].NAME \in DOMAIN fwd
                       /\ InSeq(bldgId, fwd[allDistricts[k].NAME]) }
         IN  IF ks = {} THEN Null ELSE allDistricts[FirstMatch(ks)].NAME

\* lines 972-978
CurrentPropertyDistrict(hash, rev, fwd) ==
    IF StartsWith(hash, "#property/")
    THEN findDistrictNameForProperty(ParseInt(SplitAt(hash, 1)), rev, fwd)
    ELSE Null

\* lines 992-1000
ShouldPreserveDistrict(hash, prevHash, ctx) ==
    \/ StartsWith(hash, "#district/")
    \/ (StartsWith(hash, "#property/") /\ Truthy(ctx))
    \/ (PrevStartsWith(prevHash, "#district/") /\ StartsWith(hash, "#property/"))

\* lines 1002-1014 and 1016: the further reasons to preserve, looked at only
\* when the property lies in a district
PreserveByDistrictOfProperty(prevHash, ctx, cur, rev, fwd) ==
    \/ /\ PrevStartsWith(prevHash, "#district/")
       /\ decodeURIComponent(IF SplitAt(prevHash, 1) = Null \/ SplitAt(prevHash, 1) = ""
                             THEN "" ELSE SplitAt(prevHash, 1)) = cur
    \/ /\ ~PrevStartsWith(prevHash, "#district/")
       /\ PrevStartsWith(prevHash, "#property/")
       /\ LET prevDistrict ==
                findDistrictNameForProperty(ParseInt(SplitAt(prevHash, 1)), rev, fwd)
          IN  Truthy(prevDistrict) /\ prevDistrict = cur
    \/ (Truthy(ctx) /\ ctx = cur)

\* line 1029-1030
IsFromHome(prevHash) == prevHash = Null \/ prevHash = "#" \/ prevHash = ""

KeepAllDistricts(hash, prevHash) ==
    (prevHash = "#districts" \/ IsFromHome(prevHash)) /\ StartsWith(hash, "#property/")

(***************************************************************************)
(* String helpers of the search and of updateSurveyLayer                   *)
(***************************************************************************)
UpperCase == "ABCDEFGHIJKLMNOPQRSTUVWXYZ"

LowerCase == "abcdefghijklmnopqrstuvwxyz"

LowerOf(c) ==
    IF \E i \in 1..26 : CharAt(UpperCase, i) = c
    THEN CharAt(LowerCase, CHOOSE i \in 1..26 : CharAt(UpperCase, i) = c)
    ELSE c

RECURSIVE LowerFrom(_, _)
LowerFrom(s, i) == IF i > Len(s) THEN "" ELSE LowerOf(CharAt(s, i)) \o LowerFrom(s, i + 1)

\* String.prototype.toLowerCase
toLowerCase(s) == LowerFrom(s, 1)

RECURSIVE TrimEnd(_)
TrimEnd(s) ==
    IF Len(s) > 0 /\ CharAt(s, Len(s)) = " " THEN TrimEnd(SubSeq(s, 1, Len(s) - 1)) ELSE s

\* String.prototype.trim
trim(s) == TrimEnd(SubSeq(s, SkipSpaces(s, 1), Len(s)))

\* String.prototype.includes
includes(s, sub) ==
    \E i \in 1..(Len(s) + 1) :
        i + Len(sub) - 1 <= Len(s) /\ SubSeq(s, i, i + Len(sub) - 1) = sub

(***************************************************************************)
(* The fuzzy search of the header search box                               *)
(***************************************************************************)
UpperOf(c) ==
    IF \E i \in 1..26 : CharAt(LowerCase, i) = c
    THEN CharAt(UpperCase, CHOOSE i \in 1..26 : CharAt(LowerCase, i) = c)
    ELSE c

RECURSIVE UpperFrom(_, _)
UpperFrom(s, i) == IF i > Len(s) THEN "" ELSE UpperOf(CharAt(s, i)) \o UpperFrom(s, i + 1)

\* String.prototype.toUpperCase
toUpperCase(s) == UpperFrom(s, 1)

\* q.replace(/\./g, '')
RECURSIVE RemovePeriods(_, _)
RemovePeriods(s, i) ==
    IF i > Len(s) THEN ""
    ELSE (IF CharAt(s, i) = "." THEN "" ELSE CharAt(s, i)) \o RemovePeriods(s, i + 1)

\* q.replace(/(\d+)(ST|ND|RD|TH)\b/g, '$1') on one word
StripOrdinal(w) ==
    IF /\ Len(w) >= 3
       /\ SubSeq(w, Len(w) - 1, Len(w)) \in {"ST", "ND", "RD", "TH"}
       /\ IsDigit(CharAt(w, Len(w) - 2))
    THEN SubSeq(w, 1, Len(w) - 2)
    ELSE w

\* the whole-word replacements of normalizeSearchQuery
Abbreviation(w) ==
    CASE w = "STREET" -> "ST"
      [] w = "AVENUE" -> "AVE"
      [] w = "BOULEVARD" -> "BLVD"
      [] w = "PLACE" -> "PL"
      [] w = "ROAD" -> "RD"
      [] w = "DRIVE" -> "DR"
      [] w = "LANE" -> "LN"
      [] w = "COURT" -> "CT"
      [] w = "TERRACE" -> "TER"
      [] w = "NORTH" -> "N"
      [] w = "SOUTH" -> "S"
      [] w = "EAST" -> "E"
      [] w = "WEST" -> "W"
      [] OTHER -> w

\* the two replacements word by word; the strings of the model hold letters,
\* digits and blanks, so a word is a run between blanks
RECURSIVE NormalizeWords(_, _, _)
NormalizeWords(s, i, word) ==
    IF i > Len(s) THEN Abbreviation(StripOrdinal(word))
    ELSE IF CharAt(s, i) = " "
         THEN Abbreviation(StripOrdinal(word)) \o " " \o NormalizeWords(s, i + 1, "")
         ELSE NormalizeWords(s, i + 1, word \o CharAt(s, i))

\* lines 3569-3603
normalizeSearchQuery(query) ==
    IF query = "" THEN ""
    ELSE NormalizeWords(RemovePeriods(trim(toUpperCase(query)), 1), 1, "")

Min3(x, y, z) ==
    IF x <= y /\ x <= z THEN x ELSE IF y <= z THEN y ELSE z

\* a row of the matrix filled without the substitution case
RECURSIVE LevRowWithoutSubstitution(_, _, _, _, _)
LevRowWithoutSubstitution(a, bch, prev, j, acc) ==
    IF j > Len(a) THEN acc
    ELSE LET cell == IF bch = CharAt(a, j) THEN prev[j]
                     ELSE Min3(acc[j] + 1, acc[j] + 1, prev[j + 1] + 1)
         IN  IF cell >= 0
             THEN LevRowWithoutSubstitution(a, bch, prev, j + 1, Append(acc, cell))
             ELSE acc

\* one row of the matrix of levenshteinDistance: prev[k] is matrix[i-1][k-1],
\* acc[k] is matrix[i][k-1]
RECURSIVE LevRow(_, _, _, _, _)
LevRow(a, bch, prev, j, acc) ==
    IF j > Len(a) THEN acc
    ELSE LET cell == IF bch = CharAt(a, j) THEN prev[j]
                     ELSE Min3(prev[j] + 1, acc[j] + 1, prev[j + 1] + 1)
         IN  IF cell >= 0 THEN LevRow(a, bch, prev, j + 1, Append(acc, cell)) ELSE acc

RECURSIVE LevRows(_, _, _, _)
LevRows(a, b, i, prev) ==
    IF i > Len(b) THEN prev[Len(a) + 1]
    ELSE LET row == LevRow(a, CharAt(b, i), prev, 1, << i >>)
         IN  IF Len(row) > 0 THEN LevRows(a, b, i + 1, row) ELSE 0

\* lines 3499-3533
levenshteinDistance(a, b) ==
    IF Len(a) = 0 THEN Len(b)
    ELSE IF Len(b) = 0 THEN Len(a)
    ELSE LevRows(a, b, 1, [j \in 1..(Len(a) + 1) |-> j - 1])

\* a score that admits every fuzzy candidate below distance 10
SearchScoreBelowTen(addr, query) ==
    LET normAddr == normalizeSearchQuery(addr)
        prefix == SubSeq(normAddr, 1, IF Len(query) < Len(normAddr) THEN Len(query)
                                      ELSE Len(normAddr))
        dist == levenshteinDistance(query, prefix)
    IN  IF includes(normAddr, query)
        THEN (IF StartsWith(normAddr, query) THEN -1 ELSE 0)
        ELSE (IF dist < 10 THEN dist ELSE 100)

\* lines 3543-3555: the score of one address for a normalised query
SearchScore(addr, query) ==
    LET normAddr == normalizeSearchQuery(addr)
        prefix == SubSeq(normAddr, 1, IF Len(query) < Len(normAddr) THEN Len(query)
                                      ELSE Len(normAddr))
        dist == levenshteinDistance(query, prefix)
    IN  IF includes(normAddr, query)
        THEN (IF StartsWith(normAddr, query) THEN -1 ELSE 0)
        ELSE (IF dist <= 3 THEN dist ELSE 100)

\* lines 3542-3557: surveyData.features.map(f => ({ feature: f, score }))
scored(features, query) ==
    [i \in 1..Len(features) |->
        [feature |-> features[i].BLDG_ID,
         score |-> SearchScore(features[i].address, query)]]

\* line 3560: .filter(item => item.score < 10)
RECURSIVE FilterScored(_, _)
FilterScored(items, i) ==
    IF i > Len(items) THEN << >>
    ELSE (IF items[i].score < 10 THEN << items[i] >> ELSE << >>)
         \o FilterScored(items, i + 1)

\* the place of one item in a list sorted by (a, b) => a.score - b.score: the
\* sort is stable, so the item goes behind the items that score the same
InsertByScore(sorted, item) ==
    LET before == Cardinality({ k \in 1..Len(sorted) : sorted[k].score <= item.score })
    IN  SubSeq(sorted, 1, before) \o << item >> \o SubSeq(sorted, before + 1, Len(sorted))

\* line 3561: .sort((a, b) => a.score - b.score)
RECURSIVE SortByScore(_, _, _)
SortByScore(items, i, sorted) ==
    IF i > Len(items) THEN sorted
    ELSE LET next == InsertByScore(sorted, items[i])
         IN  IF Len(next) > 0 THEN SortByScore(items, i + 1, next) ELSE sorted

\* lines 3559-3563 without .slice(0, 10): what the engine matches, ranked
RankedMatches(features, rawQuery) ==
    IF rawQuery = "" THEN << >>
    ELSE LET query == normalizeSearchQuery(rawQuery)
             ranked == SortByScore(FilterScored(scored(features, query), 1), 1, << >>)
         IN  [k \in 1..Len(ranked) |-> ranked[k].feature]

\* searchFeatures (lines 3538-3564) on a feature collection: the ids of the
\* features that score below 10, by score, equal scores in feature order, the
\* first ten
SearchFeaturesIn(features, rawQuery) ==
    LET ranked == RankedMatches(features, rawQuery)
    IN  SubSeq(ranked, 1, IF Len(ranked) < 10 THEN Len(ranked) ELSE 10)

\* searchFeatures (lines 3538-3564) on surveyData.features
searchFeatures(rawQuery) == SearchFeaturesIn(surveyData, rawQuery)

\* what the user types into the header search box
TypedQueries == {"main", "9 oak"}

\* searchFeatures on what the user types
DropdownResults == [q \in TypedQueries |-> searchFeatures(q)]

(***************************************************************************)
(* updateSurveyLayer                                                       *)
(***************************************************************************)
\* the property a categorical mode filters on
AttrOf(f, mode) ==
    CASE mode = "color" -> f.CHRS_Color
      [] mode = "decade" -> f.decade
      [] mode = "architect" -> f.CHRS_Architect
      [] mode = "style" -> f.CHRS_Style

CategoricalModes == {"color", "decade", "architect", "style"}

\* filterFunc of lines 3658-3747; filterValue is Null when the argument is left out
PassesModeFilter(f, mode, filterValue, fwd) ==
    CASE mode = "districts-filter" ->
            \E name \in DOMAIN fwd : InSeq(f.BLDG_ID, fwd[name])
      [] mode = "landmarks" -> f.landmark
      [] mode \in CategoricalModes ->
            Truthy(filterValue) => AttrOf(f, mode) = filterValue
      [] mode = "district" ->
            /\ Truthy(filterValue)
            /\ filterValue \in DOMAIN fwd
            /\ InSeq(f.BLDG_ID, fwd[filterValue])
      [] OTHER -> TRUE

\* lines 3749-3765: on a survey route the categorical and default modes also
\* require a non-empty CHRS_Address
PassesAddressFilter(f, mode, hash) ==
    (StartsWith(hash, "#survey") /\ mode \in CategoricalModes \cup {"default"})
        => trim(f.CHRS_Address) # ""

\* the layer updateSurveyLayer(mode, filterValue) puts on the map while
\* window.location.hash is hash
updateSurveyLayer(mode, filterValue, hash, fwd) ==
    [ mode |-> mode,
      filterValue |-> filterValue,
      ids |-> { surveyData[i].BLDG_ID : i \in
                  { j \in 1..Len(surveyData) :
                      /\ PassesModeFilter(surveyData[j], mode, filterValue, fwd)
                      /\ PassesAddressFilter(surveyData[j], mode, hash) } } ]

(***************************************************************************)
(* The part of the state one run of a handler reads and writes, as a       *)
(* record: handlers are chains of steps over it                            *)
(***************************************************************************)
Panel(kind, dim, value) == [kind |-> kind, dim |-> dim, value |-> value]

\* String(n) for a number n >= 0
RECURSIVE NumToStr(_)
NumToStr(n) ==
    IF n < 10 THEN CharAt(Digits, n + 1)
    ELSE NumToStr(n \div 10) \o CharAt(Digits, (n % 10) + 1)

showDistrictsLayer(st) == [st EXCEPT !.layer = TRUE]

hideDistrictsLayer(st) == [st EXCEPT !.layer = FALSE]

\* lines 3240-3251; hash is window.location.hash
clearDistrictHighlight(st, hash) ==
    LET cleared == [st EXCEPT !.selD = Null]
    IN  IF hash = "#" \/ hash = "#districts" THEN showDistrictsLayer(cleared) ELSE cleared

\* lines 3266-3279
highlightDistrict(st, name, hash) ==
    [hideDistrictsLayer(clearDistrictHighlight(st, hash)) EXCEPT !.selD = name]

\* lines 1002-1021: whether the district is preserved after all
PreserveDecision(hash, prevHash, ctx, rev, fwd) ==
    LET cur == CurrentPropertyDistrict(hash, rev, fwd)
    IN  \/ ShouldPreserveDistrict(hash, prevHash, ctx)
        \/ (Truthy(cur) /\ PreserveByDistrictOfProperty(prevHash, ctx, cur, rev, fwd))

\* lines 1018-1020: the context when the preserve decision was taken late
ContextOnLatePreserve(hash, prevHash, ctx, rev, fwd) ==
    IF /\ ~ShouldPreserveDistrict(hash, prevHash, ctx)
       /\ PreserveDecision(hash, prevHash, ctx, rev, fwd)
    THEN CurrentPropertyDistrict(hash, rev, fwd)
    ELSE ctx

\* lines 1002-1038
DecideContext(st, hash, prevHash, rev, fwd) ==
    IF PreserveDecision(hash, prevHash, st.ctx, rev, fwd)
    THEN [st EXCEPT !.ctx = ContextOnLatePreserve(hash, prevHash, st.ctx, rev, fwd)]
    ELSE IF KeepAllDistricts(hash, prevHash)
         THEN [showDistrictsLayer(st) EXCEPT !.ctx = ALL_DISTRICTS]
         ELSE [clearDistrictHighlight(st, hash) EXCEPT !.ctx = Null]

\* lines 1045-1057
PreserveRightPanel(hash, prevHash) ==
    StartsWith(hash, "#survey/architect/") /\ PrevStartsWith(prevHash, "#property/")

ClearRightSheet(st, hash, prevHash) ==
    IF PreserveRightPanel(hash, prevHash) THEN st ELSE [st EXCEPT !.card = {}]

\* lines 1064-1079: the context a property route leaves when its feature exists
\* (prevName is the decoded name of a previous district hash)
ContextOnProperty(ctx, prevHash, prevName) ==
    IF PrevStartsWith(prevHash, "#district/") THEN prevName
    ELSE IF ctx = ALL_DISTRICTS THEN ctx
    ELSE Null

\* lines 2966-2975 of buildPropertyCard
EnsureDistrictHighlight(st, hash) ==
    IF Truthy(st.ctx) /\ DistrictExists(st.ctx) /\ st.selD = Null
    THEN highlightDistrict(st, st.ctx, hash)
    ELSE st

\* lines 1059-1093
RouteProperty(st, hash, prevHash, fwd) ==
    LET bldgId == ParseInt(SplitAt(hash, 1))
        fromDistrict == PrevStartsWith(prevHash, "#district/")
        prevName == IF fromDistrict THEN decodeURIComponent(SplitAt(prevHash, 1)) ELSE Null
        s1 == [st EXCEPT !.ctx = ContextOnProperty(st.ctx, prevHash, prevName)]
        s2 == IF fromDistrict
              THEN [s1 EXCEPT !.survey = updateSurveyLayer("district", prevName, hash, fwd)]
              ELSE s1
        s3 == IF fromDistrict /\ DistrictExists(prevName) /\ s2.selD = Null
              THEN highlightDistrict(s2, prevName, hash)
              ELSE s2
        s4 == EnsureDistrictHighlight([s3 EXCEPT !.selB = {bldgId}, !.card = {bldgId}], hash)
        s5 == IF FeatureExists(bldgId) THEN s4 ELSE st
    IN  IF FeatureExists(bldgId) /\ fromDistrict /\ prevName = URIError
        THEN [st EXCEPT !.threw = TRUE]
        ELSE IF Truthy(s5.ctx) THEN s5
        ELSE IF prevHash = "#districts" THEN showDistrictsLayer(s5)
        ELSE hideDistrictsLayer(s5)

\* a < b on strings: by the code units, a proper prefix coming first
RECURSIVE StringLess(_, _, _)
StringLess(a, b, i) ==
    IF i > Len(b) THEN FALSE
    ELSE IF i > Len(a) THEN TRUE
    ELSE IF CharAt(a, i) = CharAt(b, i) THEN StringLess(a, b, i + 1)
    ELSE CodeOf(CharAt(a, i)) < CodeOf(CharAt(b, i))

\* propertySort(a, b) on the features of two ids: by street name, then by
\* house number
propertySort(a, b) ==
    LET propsA == FeatureById(a)
        propsB == FeatureById(b)
    IN  IF StringLess(propsA.ST_NAME1, propsB.ST_NAME1, 1) THEN -1
        ELSE IF StringLess(propsB.ST_NAME1, propsA.ST_NAME1, 1) THEN 1
        ELSE propsA.F_ADD1 - propsB.F_ADD1

\* x put into a sorted list behind everything that does not sort after it
RECURSIVE InsertSorted(_, _)
InsertSorted(sorted, x) ==
    IF sorted = << >> THEN << x >>
    ELSE IF propertySort(x, Head(sorted)) < 0 THEN << x >> \o sorted
    ELSE << Head(sorted) >> \o InsertSorted(Tail(sorted), x)

\* Array.prototype.sort(propertySort): a stable sort
RECURSIVE SortProperties(_, _)
SortProperties(list, sorted) ==
    IF list = << >> THEN sorted
    ELSE SortProperties(Tail(list), InsertSorted(sorted, Head(list)))

\* what buildDistrictDetailsPanel does to districtFeatureMap (lines 2042-2067):
\* without "Follow map" filteredProperties is the list of the map itself,
\* and sort() sorts it in place
SortDistrictList(fwd, districtName, follow) ==
    IF districtName \in DOMAIN fwd /\ Len(fwd[districtName]) > 0 /\ ~follow
    THEN [fwd EXCEPT ![districtName] = SortProperties(@, << >>)]
    ELSE fwd

(***************************************************************************)
(* The highlight operations and the panel builders                         *)
(***************************************************************************)
\* the highlight state the operations below work on
HighlightState ==
    [ origin |-> highlightOrigin, layer |-> highlightLayer,
      button |-> highlightControlButton, cache |-> highlightFeatureCache ]

\* map.removeLayer(highlightLayer); highlightLayer = null
removeHighlightCircles(hl) == [hl EXCEPT !.layer = {}]

\* the active button loses its active state; highlightControlButton = null
resetHighlightButtonState(hl) == [hl EXCEPT !.button = Null]

\* only a feature with a centroid becomes a point; without any point the
\* function returns before it touches the layer
showHighlightCircles(hl, features) ==
    LET points == { id \in features : FeatureById(id).centroid # Null }
    IN  IF features = {} \/ points = {} THEN hl
        ELSE [removeHighlightCircles(hl) EXCEPT !.layer = points]

\* setHighlight(features, origin, controlButton = null)
setHighlight(hl, features, origin, controlButton) ==
    LET cleared == [resetHighlightButtonState(removeHighlightCircles(hl))
                    EXCEPT !.origin = Null]
    IN  IF features = {} THEN cleared
        ELSE showHighlightCircles(
                 [cleared EXCEPT !.button = controlButton,
                                 !.origin = IF origin = "" THEN Null ELSE origin],
                 features)

clearHighlight(hl) ==
    [resetHighlightButtonState(removeHighlightCircles(hl)) EXCEPT !.origin = Null]

\* the filter of getFeaturesInView for one feature: mapBounds.contains of its
\* centroid; L.latLng throws on NaN and iCentroid fails again where it failed
\* before, and the catch answers false
CentroidInView(centroid, bounds) ==
    IF centroid = Null THEN FALSE
    ELSE iBooleanPointInPolygon(centroid, bounds)

\* getFeaturesInView (lines 3949-3969): the features whose centroid the
\* visible map bounds hold; a feature without centroid is out of view
getFeaturesInView(bounds) ==
    { id \in BldgIds : CentroidInView(FeatureById(id).centroid, bounds) }

\* surveyData.features.filter(f => ...): the ids of a set in feature order
RECURSIVE InFeatureOrder(_, _)
InFeatureOrder(ids, i) ==
    IF i > Len(surveyData) THEN << >>
    ELSE (IF surveyData[i].BLDG_ID \in ids THEN << surveyData[i].BLDG_ID >> ELSE << >>)
         \o InFeatureOrder(ids, i + 1)

\* features.filter(f => inViewIds.has(f.properties.BLDG_ID))
RECURSIVE KeepInView(_, _)
KeepInView(list, inView) ==
    IF list = << >> THEN << >>
    ELSE (IF Head(list) \in inView THEN << Head(list) >> ELSE << >>)
         \o KeepInView(Tail(list), inView)

\* the list a panel shows of its features: with "Follow map" on those in
\* view only, sorted by propertySort
FilteredList(st, features) ==
    SortProperties(IF st.follow THEN KeepInView(features, getFeaturesInView(st.bounds))
                   ELSE features,
                   << >>)

\* `survey/color:${color}` and its like for the other dimensions
HighlightKeyOf(dim, value) == "survey/" \o dim \o ":" \o value

\* the groups a list panel keeps for its highlight buttons (lines 1575-1582,
\* 1626): the features it goes through, by their value of the dimension; a
\* feature without a value is in no group
ListPanelGroups(features, dim) ==
    LET values == { AttrOf(FeatureById(id), dim) : id \in features } \ {"", Null}
    IN  [ key \in { HighlightKeyOf(dim, v) : v \in values } |->
            { id \in features : HighlightKeyOf(dim, AttrOf(FeatureById(id), dim)) = key } ]

\* cache[key] = features
CacheWith(cache, key, features) ==
    [ k \in DOMAIN cache \cup {key} |-> IF k = key THEN features ELSE cache[k] ]

\* buildColorCodeListPanel (lines 1572-1650) and the list panels of the other
\* dimensions: the highlight is cleared and the cache is filled anew from the
\* features in view ("Follow map" on) or from all features
buildListPanel(st, dim) ==
    LET features == IF st.follow THEN getFeaturesInView(st.bounds) ELSE BldgIds
    IN  [st EXCEPT !.panel = Panel("list", dim, ""),
                   !.hl = [clearHighlight(st.hl) EXCEPT !.cache = ListPanelGroups(features, dim)]]

\* buildColorCodeDetailPanel (lines 1857-1888) and the detail panels of the
\* other dimensions
buildDetailPanel(st, dim, value) ==
    LET features == { id \in BldgIds : AttrOf(FeatureById(id), dim) = value }
        highlightKey == HighlightKeyOf(dim, value)
        highlightTargets == IF highlightKey \in DOMAIN st.hl.cache
                            THEN st.hl.cache[highlightKey] ELSE features
    IN  [st EXCEPT !.panel = Panel("detail", dim, value),
                   !.list = FilteredList(st, InFeatureOrder(features, 1)),
                   !.hl = setHighlight([st.hl EXCEPT !.cache = CacheWith(@, highlightKey,
                                                                        highlightTargets)],
                                       highlightTargets, highlightKey, Null)]

\* buildLandmarksPanel (lines 1375-1481); no feature of the model is a
\* contributing property
buildLandmarksPanel(st) ==
    LET allLandmarks == { id \in BldgIds : FeatureById(id).landmark }
        cache == CacheWith(CacheWith(st.hl.cache, "landmarks_chicago", allLandmarks),
                           "landmarks_contributing", {})
    IN  [st EXCEPT !.panel = Panel("landmarks", "", ""),
                   !.list = FilteredList(st, InFeatureOrder(allLandmarks, 1)),
                   !.hl = setHighlight([st.hl EXCEPT !.cache = cache], allLandmarks,
                                       "landmarks_chicago", "landmarks_chicago")]

\* buildDistrictDetailsPanel (lines 2030-2187) without the sort in place,
\* which SortDistrictList does: the list of the index, or without one the
\* features whose centroid lies in the geometry of the district
buildDistrictDetailsPanel(st, districtName) ==
    LET first == CHOOSE k \in 1..Len(allDistricts) :
                    /\ allDistricts[k].NAME = districtName
                    /\ \A j \in 1..(k - 1) : allDistricts[j].NAME # districtName
        propertiesInside ==
            IF districtName \in DOMAIN st.fwd /\ Len(st.fwd[districtName]) > 0
            THEN st.fwd[districtName]
            ELSE FeaturesInside(allDistricts[first].geometry, 1)
    IN  [st EXCEPT !.panel = Panel("district", "", districtName),
                   !.list = FilteredList(st, propertiesInside),
                   !.hl = clearHighlight(st.hl)]

\* buildSearchPanel (lines 1511-1547)
buildSearchPanel(st, query, results) ==
    [st EXCEPT !.panel = Panel("search", "", query),
               !.list = FilteredList(st, InFeatureOrder(results, 1))]

\* buildSurveyPanel (lines 1549-1570)
buildSurveyPanel(st) ==
    [st EXCEPT !.panel = Panel("survey", "", ""), !.hl = clearHighlight(st.hl)]

\* showDefaultPanel (lines 2986-3012)
showDefaultPanel(st) ==
    [st EXCEPT !.panel = Panel("default", "", ""), !.hl = clearHighlight(st.hl)]

\* lines 1095-1114
RouteDistrict(st, hash, fwd) ==
    LET districtName == decodeURIComponent(SplitAt(hash, 1))
    IN  IF districtName = URIError THEN [st EXCEPT !.threw = TRUE]
        ELSE IF DistrictExists(districtName)
        THEN [buildDistrictDetailsPanel(
                  highlightDistrict([st EXCEPT !.ctx = districtName], districtName, hash),
                  districtName)
                EXCEPT !.fwd = SortDistrictList(@, districtName, st.follow),
                       !.survey = updateSurveyLayer("district", districtName, hash, fwd)]
        ELSE st

\* f.properties.address.toLowerCase() of every feature (line 1494)
LowerAddress == [i \in 1..Len(surveyData) |-> toLowerCase(surveyData[i].address)]

\* the features whose address holds the normalised query q
ResultsFor(q) ==
    { surveyData[i].BLDG_ID : i \in
        { j \in 1..Len(surveyData) : includes(LowerAddress[j], q) } }

\* the features handleSearch keeps (lines 1492-1497)
SearchResults(query) == UNION { ResultsFor(q) : q \in {trim(toLowerCase(query))} }

\* isPropertyVisibleInCurrentFilter; inView is whether the visible map bounds
\* hold the centroid, which the viewport decides
isPropertyVisibleInCurrentFilter(st, bldgId, inView) ==
    /\ FeatureExists(bldgId)
    /\ bldgId \in st.survey.ids
    /\ st.follow => (FeatureById(bldgId).centroid # Null /\ inView)

\* attemptShowProperty: navigate when the property is visible, else ask; when
\* the user confirms, go home now and to the property 180 ms later
attemptShowProperty(st, bldgId, inView, confirmed) ==
    IF isPropertyVisibleInCurrentFilter(st, bldgId, inView)
    THEN [st EXCEPT !.nav = "#property/" \o NumToStr(bldgId)]
    ELSE IF confirmed THEN [st EXCEPT !.nav = "#", !.later = <<bldgId>>]
    ELSE st

\* lines 1483-1506
handleSearch(st, query, inView, confirmed) ==
    IF query = "" \/ Len(query) < 3
    THEN [st EXCEPT !.panel = Panel("search-too-short", "", "")]
    ELSE LET results == SearchResults(query)
         IN  IF Cardinality(results) = 1
             THEN attemptShowProperty(st, CHOOSE id \in results : TRUE, inView, confirmed)
             ELSE buildSearchPanel(st, query, results)

\* lines 1115-1125
RouteSearch(st, hash, inView, confirmed) ==
    LET query == decodeURIComponent(SplitAt(hash, 1))
        s1 == [st EXCEPT !.follow = IF st.input # query THEN FALSE ELSE st.follow,
                         !.input = query]
    IN  IF query = URIError THEN [st EXCEPT !.threw = TRUE]
        ELSE hideDistrictsLayer(handleSearch(s1, query, inView, confirmed))

\* lines 1127-1131
RouteLandmarks(st, hash, fwd) ==
    hideDistrictsLayer([buildLandmarksPanel(st) EXCEPT
                            !.survey = updateSurveyLayer("landmarks", Null, hash, fwd)])

\* lines 1133-1152: clearHighlight(); the panel and the layers are updated
\* 40 ms later
RouteDistricts(st) == [st EXCEPT !.dtimers = @ + 1, !.hl = clearHighlight(st.hl)]

\* one categorical dimension of lines 1164-1191 (and 1271-1290): its list and
\* its detail panel; hash selects the panel, locHash is window.location.hash
SurveyDimensionPanel(st, hash, locHash, dim, fwd) ==
    LET value == decodeURIComponent(SplitAt(hash, 2))
    IN  IF hash = "#survey/" \o dim
        THEN [buildListPanel(st, dim) EXCEPT
                 !.survey = updateSurveyLayer(dim, Null, locHash, fwd)]
        ELSE IF value = URIError THEN [st EXCEPT !.threw = TRUE]
        ELSE [buildDetailPanel(st, dim, value) EXCEPT
                 !.survey = updateSurveyLayer(dim, value, locHash, fwd)]

\* lines 1160-1191 (and 1267-1291): a hash that starts with #survey and names
\* neither the root nor a dimension builds nothing
SurveyPanels(st, hash, locHash, fwd) ==
    LET dims == { d \in CategoricalModes :
                    hash = "#survey/" \o d \/ StartsWith(hash, "#survey/" \o d \o "/") }
    IN  IF hash = "#survey"
        THEN [buildSurveyPanel(st) EXCEPT
                 !.survey = updateSurveyLayer("default", Null, locHash, fwd)]
        ELSE IF dims # {}
        THEN SurveyDimensionPanel(st, hash, locHash, CHOOSE d \in dims : TRUE, fwd)
        ELSE st

\* lines 1156-1192
RouteSurvey(st, hash, fwd) == SurveyPanels(hideDistrictsLayer(st), hash, hash, fwd)

\* lines 1193-1208
RouteHome(st, hash, fwd) ==
    showDistrictsLayer([showDefaultPanel(st) EXCEPT
                            !.survey = updateSurveyLayer("default", Null, hash, fwd)])

\* lines 1059-1208: the branch the hash selects
Route(st, hash, prevHash, fwd, inView, confirmed) ==
    IF StartsWith(hash, "#property/") THEN RouteProperty(st, hash, prevHash, fwd)
    ELSE IF StartsWith(hash, "#district/") THEN RouteDistrict(st, hash, fwd)
    ELSE IF StartsWith(hash, "#search/") THEN RouteSearch(st, hash, inView, confirmed)
    ELSE IF hash = "#landmarks" THEN RouteLandmarks(st, hash, fwd)
    ELSE IF hash = "#districts" THEN RouteDistricts(st)
    ELSE IF StartsWith(hash, "#survey") THEN RouteSurvey(st, hash, fwd)
    ELSE RouteHome(st, hash, fwd)

(***************************************************************************)
(* refreshPanel                                                            *)
(***************************************************************************)
\* lines 1227-1231: the last non-property entry of hist below its top, or Null
RECURSIVE LastNonPropertyBelow(_, _)
LastNonPropertyBelow(hist, i) ==
    IF i < 1 THEN Null
    ELSE IF ~StartsWith(hist[i], "#property/") THEN hist[i]
    ELSE LastNonPropertyBelow(hist, i - 1)

\* lines 1225-1240: the hash refreshPanel rebuilds the panel of
RefreshHash(locHash, hist) ==
    IF StartsWith(locHash, "#property/")
    THEN (IF Truthy(LastNonPropertyBelow(hist, Len(hist) - 1))
          THEN LastNonPropertyBelow(hist, Len(hist) - 1)
          ELSE "#")
    ELSE locHash

\* lines 1243-1253; a malformed name throws into the catch of line 1296
RefreshDistrict(st, hash, locHash, fwd) ==
    LET districtName == decodeURIComponent(SplitAt(hash, 1))
    IN  IF districtName # URIError /\ DistrictExists(districtName)
        THEN [buildDistrictDetailsPanel(st, districtName) EXCEPT
                        !.fwd = SortDistrictList(@, districtName, st.follow),
                        !.survey = updateSurveyLayer("district", districtName, locHash, fwd)]
        ELSE st

\* lines 1267-1292; an exception of a builder ends in the catch of line 1296
RefreshSurvey(st, hash, locHash, fwd) ==
    IF SurveyPanels(st, hash, locHash, fwd).threw THEN st
    ELSE SurveyPanels(st, hash, locHash, fwd)

\* refreshPanel once the data is loaded (lines 1219-1299)
refreshPanel(st, locHash, hist, fwd) ==
    LET hash == RefreshHash(locHash, hist)
    IN  IF StartsWith(hash, "#district/") THEN RefreshDistrict(st, hash, locHash, fwd)
        ELSE IF hash = "#districts" THEN [st EXCEPT !.rtimers = @ + 1]
        ELSE IF hash = "#landmarks"
        THEN hideDistrictsLayer(buildLandmarksPanel(st))
        ELSE IF StartsWith(hash, "#survey") THEN RefreshSurvey(st, hash, locHash, fwd)
        ELSE showDistrictsLayer(
                [showDefaultPanel(st) EXCEPT
                    !.survey = updateSurveyLayer("default", Null, locHash, fwd)])

\* the panels that hold the "Follow map" button
FollowTogglePanels == {"districts", "landmarks", "search", "list", "detail", "district"}

(***************************************************************************)
(* Routes, the hashes the handlers write for them, and the route a hash    *)
(* selects                                                                 *)
(***************************************************************************)
\* a route: its variant, and the payload its variant carries
RouteRec(variant, id, dim, text) ==
    [variant |-> variant, id |-> id, dim |-> dim, text |-> text]

HomeRoute == RouteRec("Home", 0, "", "")

\* the hash the click and key handlers assign for a route (lines 392-432,
\* 600-606, 4059, 4361)
Serialize(r) ==
    CASE r.variant = "Home" -> "#"
      [] r.variant = "Property" -> "#property/" \o NumToStr(r.id)
      [] r.variant = "District" -> "#district/" \o encodeURIComponent(r.text)
      [] r.variant = "Search" -> "#search/" \o encodeURIComponent(r.text)
      [] r.variant = "Landmarks" -> "#landmarks"
      [] r.variant = "DistrictsList" -> "#districts"
      [] r.variant = "SurveyRoot" -> "#survey"
      [] r.variant = "SurveyDimension" -> "#survey/" \o r.dim
      [] r.variant = "SurveyDimensionValue" ->
            "#survey/" \o r.dim \o "/" \o encodeURIComponent(r.text)

\* the branch of handleHashChange a hash selects, with the payload the branch
\* reads from it (lines 1059-1208); a thrown URIError gives the variant "Error",
\* a #survey hash no inner branch takes gives "Unmatched"
ParseSurvey(hash) ==
    LET dims == { d \in CategoricalModes :
                    hash = "#survey/" \o d \/ StartsWith(hash, "#survey/" \o d \o "/") }
        dim == CHOOSE d \in dims : TRUE
        value == decodeURIComponent(SplitAt(hash, 2))
    IN  IF hash = "#survey" THEN RouteRec("SurveyRoot", 0, "", "")
        ELSE IF dims = {} THEN RouteRec("Unmatched", 0, "", "")
        ELSE IF hash = "#survey/" \o dim THEN RouteRec("SurveyDimension", 0, dim, "")
        ELSE IF value = URIError THEN RouteRec("Error", 0, "", "")
        ELSE RouteRec("SurveyDimensionValue", 0, dim, value)

ParseRoute(hash) ==
    LET payload == decodeURIComponent(SplitAt(hash, 1))
    IN  IF StartsWith(hash, "#property/")
        THEN RouteRec("Property", ParseInt(SplitAt(hash, 1)), "", "")
        ELSE IF StartsWith(hash, "#district/") \/ StartsWith(hash, "#search/")
        THEN (IF payload = URIError THEN RouteRec("Error", 0, "", "")
              ELSE RouteRec(IF StartsWith(hash, "#district/") THEN "District" ELSE "Search",
                            0, "", payload))
        ELSE IF hash = "#landmarks" THEN RouteRec("Landmarks", 0, "", "")
        ELSE IF hash = "#districts" THEN RouteRec("DistrictsList", 0, "", "")
        ELSE IF StartsWith(hash, "#survey") THEN ParseSurvey(hash)
        ELSE HomeRoute

\* roundTrip while no route is on its way
Idle == [stage |-> "idle", route |-> HomeRoute, token |-> "", parsed |-> HomeRoute]

(***************************************************************************)
(* The navigation tokens of the model                                      *)
(***************************************************************************)
\* the values window.location.hash takes: "" is what the browser reports after
\* location.hash = '#' or '' (home); the others are written as they are typed,
\* linked or produced by the handlers
Tokens ==
    { "",
      "#property/1", "#property/2", "#property/4", "#property/9",
      "#district/Elm%20Park", "#district/Nowhere", "#district/%",
      "#districts", "#landmarks",
      "#search/main", "#search/oak",
      "#survey", "#survey/color", "#survey/color/Red",
      "#surveyx", "#garbage/token" }

\* what location.hash reads after the assignment location.hash = h
HashAfterAssign(h) == IF h = "#" THEN "" ELSE h

(***************************************************************************)
(* The group highlight: circles over the features of one group             *)
(***************************************************************************)
\* the keys of the groups the panels offer a highlight button for
HighlightKeys == {"landmarks_chicago", "landmarks_contributing", "survey/color:Red"}

\* the groups of features a panel may pass; feature 6 has no centroid
HighlightGroups == { {}, {1, 6}, {4}, {6} }

\* highlightFeatureCache[key] || []
CachedFeatures(hl, key) == IF key \in DOMAIN hl.cache THEN hl.cache[key] ELSE {}

\* handleHighlightToggle(button), key being button.dataset.highlightKey
handleHighlightToggle(hl, key) ==
    IF key = "" THEN hl
    ELSE IF hl.origin = key THEN clearHighlight(hl)
    ELSE setHighlight(hl, CachedFeatures(hl, key), key, key)

\* the highlight state is stored, with a record of the operation that ran
StoreHighlight(hl, op, origin, features) ==
    /\ highlightOrigin' = hl.origin
    /\ highlightLayer' = hl.layer
    /\ highlightControlButton' = hl.button
    /\ highlightFeatureCache' = hl.cache
    /\ highlightCall' = [ op |-> op, origin |-> origin, features |-> features,
                          wasOrigin |-> highlightOrigin, wasLayer |-> highlightLayer ]

NoHighlightCall ==
    [op |-> "none", origin |-> "", features |-> {}, wasOrigin |-> Null, wasLayer |-> {}]

\* highlightLayer = null, highlightOrigin = null, highlightControlButton =
\* null, highlightFeatureCache = {}
InitHighlight ==
    /\ highlightOrigin = Null
    /\ highlightLayer = {}
    /\ highlightControlButton = Null
    /\ highlightFeatureCache = << >>
    /\ highlightCall = NoHighlightCall

(***************************************************************************)
(* The debounce of the moveend listener                                    *)
(***************************************************************************)
\* handle is the variable mapMoveTimer of the code (no id, or the id that
\* setTimeout returned), scheduled the timeouts the browser holds, issued the
\* ids given out; burst counts the moveend events since the last expiry, ran
\* the expiries and refreshed the calls of refreshPanel since the last
\* moveend; expanded is what bottomSheet.classList.contains('expanded') gave
\* the last of these expiries
NoMoveTimer ==
    [ handle |-> {}, scheduled |-> {}, issued |-> 0, burst |-> 0, ran |-> 0,
      refreshed |-> 0, expanded |-> FALSE ]

\* if (mapMoveTimer) { clearTimeout(mapMoveTimer); mapMoveTimer = null; }
CancelPending(timer) ==
    [timer EXCEPT !.scheduled = @ \ timer.handle, !.handle = {}]

\* mapMoveTimer = setTimeout(..., 200)
SchedulePending(timer) ==
    [timer EXCEPT !.handle = {timer.issued + 1},
                  !.scheduled = @ \cup {timer.issued + 1},
                  !.issued = @ + 1]

(***************************************************************************)
(* The build of the index, followed district by district                   *)
(***************************************************************************)
\* the features, and what their centroids, the names and the geometries of
\* the districts are drawn from; Null is a centroid that cannot be computed
\* or a district without NAME, and a district has one geometry or none
IndexIds == {1, 2, 3}

IndexCentroids == << <<1, 1>>, <<2, 1>>, <<3, 1>>, Null >>

IndexNames == {"Ridge", "Elm Park", Null}

IndexGeometries ==
    { << Rect(0, 0, 2, 2) >>, << Rect(2, 0, 4, 2) >>, << Rect(1, 0, 3, 2) >>, << >> }

\* no query is on its way
NoSearchRun == [stage |-> "idle"]

\* no districts are being indexed
NoBuild ==
    [ districts |-> << >>, centroids |-> << >>, next |-> 1,
      forward |-> << >>, reverse |-> << >> ]

\* districtFeatureMap = {} with an empty list for every district that has a
\* NAME; bldgIdToDistrict = {}
StartBuild(districts, centroids) ==
    [ districts |-> districts, centroids |-> centroids, next |-> 1,
      forward |-> [ name \in { districts[k].NAME : k \in 1..Len(districts) } \ {Null, ""}
                      |-> << >> ],
      reverse |-> << >> ]

\* if (!bldgIdToDistrict[id]) bldgIdToDistrict[id] = name
SetIfAbsent(reverse, id, name) ==
    IF id \in DOMAIN reverse THEN reverse
    ELSE [ e \in DOMAIN reverse \cup {id} |-> IF e = id THEN name ELSE reverse[e] ]

\* the body of the inner loop for one feature
IndexFeature(build, name, geom, id) ==
    IF build.centroids[id] = Null THEN build
    ELSE IF ~iBooleanPointInPolygon(build.centroids[id], geom) THEN build
    ELSE [build EXCEPT !.forward[name] = Append(@, id),
                       !.reverse = SetIfAbsent(@, id, name)]

\* for (const f of surveyData.features)
RECURSIVE IndexFeatures(_, _, _, _)
IndexFeatures(build, name, geom, id) ==
    IF id \notin IndexIds THEN build
    ELSE IndexFeatures(IndexFeature(build, name, geom, id), name, geom, id + 1)

\* the body of the outer loop for one district
IndexDistrict(build, d) ==
    IF ~Truthy(d.NAME) \/ d.geometry = << >> THEN build
    ELSE IndexFeatures(build, d.NAME, d.geometry[1], 1)

(***************************************************************************)
(* Initial state: the page is open on some hash and the data is loading    *)
(***************************************************************************)
InitApp ==
    /\ isDataLoaded = FALSE
    /\ locationHash \in Tokens
    /\ pendingHashChanges = 0
    /\ appHistory = << >>
    /\ lastListHash = ""
    /\ activeDistrictContext = Null
    /\ districtFeatureMap = << >>
    /\ bldgIdToDistrict = << >>
    /\ selectedBuildingLayer = {}
    /\ selectedDistrictLayer = Null
    /\ districtsLayerShown = FALSE
    /\ sheetPanel = Panel("default", "", "")
    /\ rightSheetCard = {}
    /\ surveyLayer = [mode |-> Null, filterValue |-> Null, ids |-> {}]
    /\ searchInputValue = ""
    /\ isMapFollowEnabled = FALSE
    /\ districtsTimers = 0
    /\ showPropertyTimers = << >>
    /\ refreshTimers = 0
    /\ visited = << >>
    /\ currentDropdownResults = << >>
    /\ InitHighlight
    /\ mapMoveTimer = NoMoveTimer
    /\ mapBounds = WholeMap
    /\ currentNavigationList = << >>

Init ==
    InitApp /\ roundTrip = Idle /\ indexBuild = NoBuild /\ searchRun = NoSearchRun

(***************************************************************************)
(* handleHashChange as a whole                                             *)
(***************************************************************************)
\* the record the steps of a handler work on, from the current state
Current ==
    [ ctx |-> activeDistrictContext, selB |-> selectedBuildingLayer,
      selD |-> selectedDistrictLayer, layer |-> districtsLayerShown,
      panel |-> sheetPanel, card |-> rightSheetCard, survey |-> surveyLayer,
      input |-> searchInputValue, follow |-> isMapFollowEnabled,
      dtimers |-> districtsTimers, rtimers |-> refreshTimers,
      dropdown |-> currentDropdownResults, fwd |-> districtFeatureMap,
      hl |-> HighlightState, list |-> currentNavigationList, bounds |-> mapBounds,
      nav |-> Null, later |-> << >>, threw |-> FALSE ]

\* lines 3198-3202
clearSearchDropdown(st) == [st EXCEPT !.dropdown = << >>]

\* lines 980-1208 on hash, with the history already pushed
Resolve(st, hash, prevHash, rev, fwd, inView, confirmed) ==
    Route(ClearRightSheet(DecideContext(clearSearchDropdown([st EXCEPT !.selB = {}]),
                                        hash, prevHash, rev, fwd),
                          hash, prevHash),
          hash, prevHash, fwd, inView, confirmed)

\* what the panel builders of a run leave: the highlight and the list
WriteBuilt(st) ==
    /\ highlightOrigin' = st.hl.origin
    /\ highlightLayer' = st.hl.layer
    /\ highlightControlButton' = st.hl.button
    /\ highlightFeatureCache' = st.hl.cache
    /\ currentNavigationList' = st.list

\* the state a handler run leaves, written back; pending is the number of
\* queued hashchange events without those this run adds.  An assignment to
\* location.hash queues an event only when it changes the hash.
WriteBack(st, pending) ==
    /\ WriteBuilt(st)
    /\ activeDistrictContext' = st.ctx
    /\ selectedBuildingLayer' = st.selB
    /\ selectedDistrictLayer' = st.selD
    /\ districtsLayerShown' = st.layer
    /\ sheetPanel' = st.panel
    /\ rightSheetCard' = st.card
    /\ surveyLayer' = st.survey
    /\ searchInputValue' = st.input
    /\ isMapFollowEnabled' = st.follow
    /\ districtsTimers' = st.dtimers
    /\ refreshTimers' = st.rtimers
    /\ currentDropdownResults' = st.dropdown
    /\ districtFeatureMap' = st.fwd
    /\ showPropertyTimers' =
          showPropertyTimers \o st.later
    /\ locationHash' = IF st.nav = Null THEN locationHash ELSE HashAfterAssign(st.nav)
    /\ pendingHashChanges' =
          IF st.nav = Null \/ HashAfterAssign(st.nav) = locationHash
          THEN pending ELSE pending + 1

\* handleHashChange once the data is loaded (lines 933-1208).  caught says what
\* the caller does with an exception: loadDataSources shows the error panel,
\* the hashchange listener only logs it.
handleHashChange(st, rev, fwd, pending, errorPanel, inView, confirmed) ==
    LET hash == locationHash
        hist == PushHistory(appHistory, hash)
        prevHash == PrevHashOf(hist)
    IN  /\ appHistory' = hist
        /\ lastListHash' = NextLastListHash(lastListHash, hash)
        /\ visited' = Append(visited, hash)
        /\ \E done \in {Resolve(st, hash, prevHash, rev, fwd, inView, confirmed)} :
              WriteBack(IF done.threw /\ errorPanel
                        THEN [done EXCEPT !.panel = Panel("error", "", "")]
                        ELSE done,
                        pending)

(***************************************************************************)
(* Actions                                                                 *)
(***************************************************************************)
\* Whether the map bounds hold the centroid of the property looked for, and
\* what the user answers to confirm(): both are read by attemptShowProperty
\* alone, which only a #search/ hash reaches, the first only with "Follow map" on.
ViewportAnswers ==
    IF StartsWith(locationHash, "#search/") /\ isMapFollowEnabled THEN BOOLEAN ELSE {TRUE}

ConfirmAnswers == IF StartsWith(locationHash, "#search/") THEN BOOLEAN ELSE {TRUE}

\* The user (a link, a pill, a list item, the address bar, the browser's back
\* button) sets location.hash to another token: the browser queues a
\* hashchange event.  User input is handled after the events already queued.
NavigateTo(tokens) ==
    /\ pendingHashChanges = 0
    /\ Len(visited) <= MaxNav
    /\ \E t \in tokens :
          /\ t # locationHash
          /\ locationHash' = t
    /\ pendingHashChanges' = pendingHashChanges + 1
    /\ UNCHANGED << isDataLoaded, appHistory, lastListHash, activeDistrictContext,
                    districtFeatureMap, bldgIdToDistrict, selectedBuildingLayer,
                    selectedDistrictLayer, districtsLayerShown, sheetPanel,
                    rightSheetCard, surveyLayer, searchInputValue,
                    isMapFollowEnabled, districtsTimers, showPropertyTimers,
                    refreshTimers, visited, roundTrip,
                    currentDropdownResults, asideVars >>

Navigate == NavigateTo(Tokens)

\* a slip: handleHashChange without the load gate of line 931
HashChangeUngated ==
    /\ pendingHashChanges > 0
    /\ ~isDataLoaded
    /\ handleHashChange(Current, bldgIdToDistrict, districtFeatureMap,
                        pendingHashChanges - 1, FALSE, TRUE, TRUE)
    /\ UNCHANGED << isDataLoaded, bldgIdToDistrict, roundTrip, restVars >>

\* The hashchange listener on an event that arrives before the data is loaded:
\* handleHashChange returns at once (line 931).
HashChangeDropped ==
    /\ pendingHashChanges > 0
    /\ ~isDataLoaded
    /\ pendingHashChanges' = pendingHashChanges - 1
    /\ UNCHANGED << isDataLoaded, locationHash, appHistory, lastListHash,
                    activeDistrictContext, districtFeatureMap, bldgIdToDistrict,
                    selectedBuildingLayer, selectedDistrictLayer, districtsLayerShown,
                    sheetPanel, rightSheetCard, surveyLayer, searchInputValue,
                    isMapFollowEnabled, districtsTimers, showPropertyTimers, refreshTimers, visited, roundTrip,
                    currentDropdownResults, asideVars >>

\* The hashchange listener once the data is loaded (lines 383-386).
HashChange ==
    /\ pendingHashChanges > 0
    /\ isDataLoaded
    /\ \E inView \in ViewportAnswers, confirmed \in ConfirmAnswers :
          handleHashChange(Current, bldgIdToDistrict, districtFeatureMap,
                           pendingHashChanges - 1, FALSE, inView, confirmed)
    /\ UNCHANGED << isDataLoaded, bldgIdToDistrict, roundTrip, restVars >>

\* loadDataSources after the three fetches: the index is built, the layers are
\* put on the map, and the current hash is resolved (lines 252-357).
LoadComplete ==
    /\ ~isDataLoaded
    /\ bldgIdToDistrict' = BuildBldgIdToDistrict
    /\ isDataLoaded' = TRUE
    /\ \E inView \in ViewportAnswers, confirmed \in ConfirmAnswers :
          handleHashChange(
              [Current EXCEPT !.layer = TRUE,
                              !.fwd = BuildDistrictFeatureMap,
                              !.survey = updateSurveyLayer("default", Null, locationHash,
                                                           BuildDistrictFeatureMap)],
              BuildBldgIdToDistrict, BuildDistrictFeatureMap,
              pendingHashChanges, TRUE, inView, confirmed)
    /\ UNCHANGED << roundTrip, restVars >>

\* The close button of the property card (lines 2636-2676).  The card is
\* rendered by updateSheetContent alone, which puts this listener on the
\* button itself; it stops the propagation of the click, so the delegated
\* handlers of the two sheets (lines 567-586 and 661-685) never see it.  A wide
\* window (desktop) only hides the right sheet; a narrow one goes to
\* lastListHash, or without one minimises the sheet and empties a property
\* hash.  The read of the undeclared selectedFeatureLayer (line 2667) then
\* throws, so the district highlight is never reset here.
CloseProperty ==
    /\ rightSheetCard # {}
    /\ pendingHashChanges = 0
    /\ Len(visited) <= MaxNav
    /\ \E desktop \in BOOLEAN :
          LET toList == ~desktop /\ lastListHash # "" /\ lastListHash # "#"
              target == IF toList THEN HashAfterAssign(lastListHash)
                        ELSE IF ~desktop /\ StartsWith(locationHash, "#property/") THEN ""
                        ELSE locationHash
          IN  /\ rightSheetCard' = IF toList THEN rightSheetCard ELSE {}
              /\ locationHash' = target
              /\ pendingHashChanges' =
                    IF target = locationHash
                    THEN pendingHashChanges ELSE pendingHashChanges + 1
    /\ UNCHANGED << isDataLoaded, appHistory, lastListHash, activeDistrictContext,
                    districtFeatureMap, bldgIdToDistrict, selectedBuildingLayer,
                    selectedDistrictLayer, districtsLayerShown, sheetPanel,
                    surveyLayer, searchInputValue, isMapFollowEnabled,
                    districtsTimers, showPropertyTimers, refreshTimers, visited, roundTrip,
                    currentDropdownResults, asideVars >>

\* The 40 ms timer of the #districts branch fires (lines 1140-1152).
DistrictsTimerFires ==
    /\ districtsTimers > 0
    /\ districtsTimers' = districtsTimers - 1
    /\ sheetPanel' = Panel("districts", "", "")
    /\ districtsLayerShown' = TRUE
    /\ surveyLayer' = updateSurveyLayer("districts-filter", Null, locationHash,
                                        districtFeatureMap)
    /\ UNCHANGED << isDataLoaded, locationHash, pendingHashChanges, appHistory,
                    lastListHash, activeDistrictContext, districtFeatureMap,
                    bldgIdToDistrict, selectedBuildingLayer, selectedDistrictLayer,
                    rightSheetCard, searchInputValue, isMapFollowEnabled,
                    showPropertyTimers, refreshTimers, visited, roundTrip,
                    currentDropdownResults, asideVars >>

\* The 180 ms timer of attemptShowProperty fires (lines 4069-4071).
ShowPropertyTimerFires ==
    /\ showPropertyTimers # << >>
    /\ showPropertyTimers' = Tail(showPropertyTimers)
    /\ LET target == "#property/" \o NumToStr(Head(showPropertyTimers))
       IN  /\ locationHash' = target
           /\ pendingHashChanges' =
                 IF target = locationHash THEN pendingHashChanges
                 ELSE pendingHashChanges + 1
    /\ UNCHANGED << isDataLoaded, appHistory, lastListHash, activeDistrictContext,
                    districtFeatureMap, bldgIdToDistrict, selectedBuildingLayer,
                    selectedDistrictLayer, districtsLayerShown, sheetPanel,
                    rightSheetCard, surveyLayer, searchInputValue,
                    isMapFollowEnabled, districtsTimers, refreshTimers, visited, roundTrip,
                    currentDropdownResults, asideVars >>

\* The 40 ms timer of refreshPanel on #districts fires (lines 1257-1264).
RefreshTimerFires ==
    /\ refreshTimers > 0
    /\ refreshTimers' = refreshTimers - 1
    /\ sheetPanel' = Panel("districts", "", "")
    /\ districtsLayerShown' = TRUE
    /\ surveyLayer' = updateSurveyLayer("default", Null, locationHash, districtFeatureMap)
    /\ UNCHANGED << isDataLoaded, locationHash, pendingHashChanges, appHistory,
                    lastListHash, activeDistrictContext, districtFeatureMap,
                    bldgIdToDistrict, selectedBuildingLayer, selectedDistrictLayer,
                    rightSheetCard, searchInputValue, isMapFollowEnabled,
                    districtsTimers, showPropertyTimers, visited, roundTrip,
                    currentDropdownResults, asideVars >>

\* what a run of refreshPanel on st leaves, written back
RefreshWriteBack(st) ==
    \E done \in {refreshPanel(st, locationHash, appHistory, districtFeatureMap)} :
        /\ sheetPanel' = done.panel
        /\ surveyLayer' = done.survey
        /\ districtsLayerShown' = done.layer
        /\ refreshTimers' = done.rtimers
        /\ isMapFollowEnabled' = done.follow
        /\ districtFeatureMap' = done.fwd
        /\ WriteBuilt(done)

\* A click on the "Follow map" button of a list panel (lines 499-518, 614-618).
\* The user acts after the short timers of the panel have fired.
FollowMapToggle ==
    /\ isDataLoaded
    /\ sheetPanel.kind \in FollowTogglePanels
    /\ pendingHashChanges = 0
    /\ refreshTimers = 0
    /\ Len(visited) <= MaxNav
    /\ RefreshWriteBack([Current EXCEPT !.follow = ~isMapFollowEnabled])
    /\ UNCHANGED << isDataLoaded, locationHash, pendingHashChanges, appHistory,
                    lastListHash, activeDistrictContext,
                    bldgIdToDistrict, selectedBuildingLayer, selectedDistrictLayer,
                    rightSheetCard, searchInputValue, districtsTimers,
                    showPropertyTimers, visited, roundTrip,
                    currentDropdownResults, restVars >>

\* The debounced moveend timer fires with the sheet expanded (lines 702-714);
\* before the load refreshPanel returns at once (line 1218).
MapMoveRefresh ==
    /\ isMapFollowEnabled
    /\ ~StartsWith(locationHash, "#property/")
    /\ refreshTimers = 0
    /\ IF isDataLoaded
       THEN RefreshWriteBack(Current)
       ELSE UNCHANGED << sheetPanel, surveyLayer, districtsLayerShown, refreshTimers,
                         isMapFollowEnabled, districtFeatureMap, builtVars >>
    /\ UNCHANGED << isDataLoaded, locationHash, pendingHashChanges, appHistory,
                    lastListHash, activeDistrictContext,
                    bldgIdToDistrict, selectedBuildingLayer, selectedDistrictLayer,
                    rightSheetCard, searchInputValue, districtsTimers,
                    showPropertyTimers, visited, roundTrip,
                    currentDropdownResults, restVars >>

\* showSearchDropdown (lines 3162-3196): the suggestions for what the box holds
showSearchDropdown(query) ==
    IF query = "" \/ Len(query) < 2 THEN << >> ELSE DropdownResults[query]

\* whether the map bounds hold the centroid, asked only with "Follow map" on
FollowAnswers == IF isMapFollowEnabled THEN BOOLEAN ELSE {TRUE}

\* The user types into the header search box (lines 415-417).
SearchInput ==
    /\ isDataLoaded
    /\ pendingHashChanges = 0
    /\ Len(visited) <= MaxNav
    /\ \E q \in TypedQueries :
          /\ searchInputValue' = q
          /\ currentDropdownResults' = showSearchDropdown(q)
    /\ UNCHANGED << isDataLoaded, locationHash, pendingHashChanges, appHistory,
                    lastListHash, activeDistrictContext, districtFeatureMap,
                    bldgIdToDistrict, selectedBuildingLayer, selectedDistrictLayer,
                    districtsLayerShown, sheetPanel, rightSheetCard, surveyLayer,
                    isMapFollowEnabled, districtsTimers, showPropertyTimers,
                    refreshTimers, visited, roundTrip, asideVars >>

\* The Enter key in the header search box (lines 419-432): one suggestion is
\* shown at once, otherwise the full search is run.
SearchEnter ==
    /\ isDataLoaded
    /\ pendingHashChanges = 0
    /\ Len(visited) <= MaxNav
    /\ \E inView \in FollowAnswers, confirmed \in BOOLEAN :
          WriteBack(clearSearchDropdown(
                        IF Len(currentDropdownResults) = 1
                        THEN attemptShowProperty(Current, currentDropdownResults[1],
                                                 inView, confirmed)
                        ELSE [Current EXCEPT
                                !.nav = "#search/" \o encodeURIComponent(searchInputValue)]),
                    pendingHashChanges)
    /\ UNCHANGED << isDataLoaded, appHistory, lastListHash,
                    bldgIdToDistrict, visited, roundTrip, restVars >>

\* A click on a suggestion (lines 3185-3191).
DropdownClick ==
    /\ currentDropdownResults # << >>
    /\ pendingHashChanges = 0
    /\ Len(visited) <= MaxNav
    /\ \E k \in 1..Len(currentDropdownResults), inView \in FollowAnswers,
          confirmed \in BOOLEAN :
          WriteBack([clearSearchDropdown(
                        attemptShowProperty(Current, currentDropdownResults[k],
                                            inView, confirmed))
                     EXCEPT !.input = ""],
                    pendingHashChanges)
    /\ UNCHANGED << isDataLoaded, appHistory, lastListHash,
                    bldgIdToDistrict, visited, roundTrip, restVars >>

\* A click outside the search bar (lines 434-438).
OutsideClick ==
    /\ currentDropdownResults # << >>
    /\ currentDropdownResults' = << >>
    /\ UNCHANGED << isDataLoaded, locationHash, pendingHashChanges, appHistory,
                    lastListHash, activeDistrictContext, districtFeatureMap,
                    bldgIdToDistrict, selectedBuildingLayer, selectedDistrictLayer,
                    districtsLayerShown, sheetPanel, rightSheetCard, surveyLayer,
                    searchInputValue, isMapFollowEnabled, districtsTimers,
                    showPropertyTimers, refreshTimers, visited, roundTrip, asideVars >>

Next ==
    \/ Navigate
    \/ HashChangeDropped
    \/ HashChange
    \/ LoadComplete
    \/ CloseProperty
    \/ DistrictsTimerFires
    \/ ShowPropertyTimerFires
    \/ RefreshTimerFires
    \/ FollowMapToggle
    \/ MapMoveRefresh

Spec == Init /\ [][Next]_vars

(***************************************************************************)
(* A session with the header search box                                    *)
(***************************************************************************)
\* the hashes the user of the search box also goes to
SearchTokens == {"", "#property/1", "#property/2", "#property/9", "#landmarks", "#districts"}

NavigateInSearch == NavigateTo(SearchTokens)

InitSearch == Init /\ locationHash \in SearchTokens

NextSearch ==
    \/ LoadComplete
    \/ NavigateInSearch
    \/ HashChangeDropped
    \/ HashChange
    \/ SearchInput
    \/ SearchEnter
    \/ DropdownClick
    \/ OutsideClick
    \/ ShowPropertyTimerFires
    \/ DistrictsTimerFires

SpecSearch == InitSearch /\ [][NextSearch]_vars

(***************************************************************************)
(* A session with the highlight buttons of the panels                      *)
(***************************************************************************)
UnchangedByHighlight ==
    UNCHANGED << isDataLoaded, locationHash, pendingHashChanges, appHistory,
                 lastListHash, activeDistrictContext, districtFeatureMap,
                 bldgIdToDistrict, selectedBuildingLayer, selectedDistrictLayer,
                 districtsLayerShown, sheetPanel, rightSheetCard, surveyLayer,
                 searchInputValue, isMapFollowEnabled, districtsTimers,
                 showPropertyTimers, refreshTimers, visited, roundTrip,
                 currentDropdownResults, mapMoveTimer, indexBuild,
                 searchRun, mapBounds, currentNavigationList >>

\* A list panel is built (lines 1573-1574): clearHighlight();
\* highlightFeatureCache = {}.
HighlightListPanel ==
    /\ isDataLoaded
    /\ StoreHighlight([clearHighlight(HighlightState) EXCEPT !.cache = << >>],
                      "clearHighlight", "", {})
    /\ UnchangedByHighlight

\* A panel keeps the features of a group for its button (lines 1420-1421,
\* 1626): highlightFeatureCache[key] = features.
CacheGroup ==
    /\ isDataLoaded
    /\ \E key \in HighlightKeys, features \in HighlightGroups :
          highlightFeatureCache' =
              [ k \in DOMAIN highlightFeatureCache \cup {key} |->
                  IF k = key THEN features ELSE highlightFeatureCache[k] ]
    /\ UNCHANGED << highlightOrigin, highlightLayer, highlightControlButton,
                    highlightCall >>
    /\ UnchangedByHighlight

\* A panel highlights a group (lines 1463, 1876, 2185), with the button of
\* the group or without one.
SetHighlightCall ==
    /\ isDataLoaded
    /\ \E features \in HighlightGroups, origin \in HighlightKeys,
          withButton \in BOOLEAN :
          StoreHighlight(setHighlight(HighlightState, features, origin,
                                      IF withButton THEN origin ELSE Null),
                         "setHighlight", origin, features)
    /\ UnchangedByHighlight

\* A panel removes the highlight (lines 1134, 2038, 2987).
ClearHighlightCall ==
    /\ isDataLoaded
    /\ StoreHighlight(clearHighlight(HighlightState), "clearHighlight", "", {})
    /\ UnchangedByHighlight

\* A click on a highlight button (lines 490-497).
HighlightToggleClick ==
    /\ isDataLoaded
    /\ \E key \in HighlightKeys :
          StoreHighlight(handleHighlightToggle(HighlightState, key),
                         "handleHighlightToggle", key,
                         CachedFeatures(HighlightState, key))
    /\ UnchangedByHighlight

InitHighlightSession == Init /\ locationHash = ""

NextHighlight ==
    \/ LoadComplete
    \/ HighlightListPanel
    \/ CacheGroup
    \/ SetHighlightCall
    \/ ClearHighlightCall
    \/ HighlightToggleClick

SpecHighlight == InitHighlightSession /\ [][NextHighlight]_vars

(***************************************************************************)
(* A session with the map being moved                                      *)
(***************************************************************************)
\* The map ends a move (lines 702-704): the pending timer is cancelled and a
\* new one is scheduled.
MapMoveEnd ==
    /\ mapMoveTimer.issued < MaxMoves
    /\ mapBounds' \in MapViews
    /\ mapMoveTimer' = [SchedulePending(CancelPending(mapMoveTimer))
                        EXCEPT !.burst = @ + 1, !.ran = 0, !.refreshed = 0,
                               !.expanded = FALSE]
    /\ UNCHANGED << isDataLoaded, locationHash, pendingHashChanges, appHistory,
                    lastListHash, activeDistrictContext, districtFeatureMap,
                    bldgIdToDistrict, selectedBuildingLayer, selectedDistrictLayer,
                    districtsLayerShown, sheetPanel, rightSheetCard, surveyLayer,
                    searchInputValue, isMapFollowEnabled, districtsTimers,
                    showPropertyTimers, refreshTimers, visited, roundTrip,
                    currentDropdownResults, highlightVars, indexBuild,
                    searchRun, currentNavigationList >>

\* A timer of the moveend listener expires (lines 704-714), with the bottom
\* sheet expanded or not: refreshPanel runs if "Follow map" is on, the sheet
\* is expanded and the hash is not a property hash; mapMoveTimer = null.
\* a guard that does not look at the route
FollowRefreshDueOnAnyRoute(follow, expanded, currentHash) == follow /\ expanded

\* the test of the timer callback (lines 707-710)
FollowRefreshDue(follow, expanded, currentHash) ==
    follow /\ expanded /\ ~StartsWith(currentHash, "#property/")

MapMoveTimerFires ==
    /\ \E id \in mapMoveTimer.scheduled, expanded \in BOOLEAN :
          LET refreshes == FollowRefreshDue(isMapFollowEnabled, expanded, locationHash)
          IN  /\ mapMoveTimer' =
                    [mapMoveTimer EXCEPT !.handle = {}, !.scheduled = @ \ {id},
                                         !.burst = 0, !.ran = @ + 1,
                                         !.expanded = expanded,
                                         !.refreshed = IF refreshes THEN @ + 1 ELSE @]
              /\ IF refreshes /\ isDataLoaded
                 THEN RefreshWriteBack(Current)
                 ELSE UNCHANGED << sheetPanel, surveyLayer, districtsLayerShown,
                                   refreshTimers, isMapFollowEnabled,
                                   districtFeatureMap, builtVars >>
    /\ UNCHANGED << isDataLoaded, locationHash, pendingHashChanges, appHistory,
                    lastListHash, activeDistrictContext,
                    bldgIdToDistrict, selectedBuildingLayer, selectedDistrictLayer,
                    rightSheetCard, searchInputValue, districtsTimers,
                    showPropertyTimers, visited, roundTrip,
                    currentDropdownResults, highlightCall, indexBuild,
                    searchRun, mapBounds >>

MoveTokens == {"", "#property/1", "#survey/color", "#district/Elm%20Park"}

NavigateWhileMoving == NavigateTo(MoveTokens)

InitMove == Init /\ locationHash \in MoveTokens

NextMove ==
    \/ LoadComplete
    \/ NavigateWhileMoving
    \/ HashChangeDropped
    \/ HashChange
    \/ FollowMapToggle
    \/ MapMoveEnd
    \/ MapMoveTimerFires

\* the browser runs a timeout that is due
SpecMove == InitMove /\ [][NextMove]_vars /\ WF_vars(MapMoveTimerFires)

(***************************************************************************)
(* The index is built over drawn districts and centroids                   *)
(***************************************************************************)
\* for (const d of allDistricts): the next district is indexed
IndexNextDistrict ==
    /\ indexBuild.next <= Len(indexBuild.districts)
    /\ indexBuild' = [IndexDistrict(indexBuild, indexBuild.districts[indexBuild.next])
                      EXCEPT !.next = @ + 1]
    /\ UNCHANGED << isDataLoaded, locationHash, pendingHashChanges, appHistory,
                    lastListHash, activeDistrictContext, districtFeatureMap,
                    bldgIdToDistrict, selectedBuildingLayer, selectedDistrictLayer,
                    districtsLayerShown, sheetPanel, rightSheetCard, surveyLayer,
                    searchInputValue, isMapFollowEnabled, districtsTimers,
                    showPropertyTimers, refreshTimers, visited, roundTrip,
                    currentDropdownResults, highlightVars, mapMoveTimer,
                    searchRun, mapBounds, currentNavigationList >>

\* allDistricts = [...nationalDistricts.features, ...chicagoDistricts.features]
\* with one district of each collection
InitIndex ==
    /\ InitApp
    /\ roundTrip = Idle
    /\ searchRun = NoSearchRun
    /\ locationHash = ""
    /\ \E national, chicago \in IndexNames,
          gn, gc \in IndexGeometries,
          cs \in [IndexIds -> 1..Len(IndexCentroids)] :
          indexBuild =
              StartBuild(<< [NAME |-> national, geometry |-> gn] >>
                         \o << [NAME |-> chicago, geometry |-> gc] >>,
                         [ id \in IndexIds |-> IndexCentroids[cs[id]] ])

NextIndex == IndexNextDistrict

SpecIndex == InitIndex /\ [][NextIndex]_vars

(***************************************************************************)
(* A long session: the user follows links to ever new hashes               *)
(***************************************************************************)
\* a hash not resolved before: the n-th link followed
FreshHash(n) == "#property/" \o NumToStr(1000 + n)

NavigateFresh ==
    /\ isDataLoaded
    /\ pendingHashChanges = 0
    /\ Len(visited) < CapRuns
    /\ locationHash' = FreshHash(Len(visited))
    /\ pendingHashChanges' = pendingHashChanges + 1
    /\ UNCHANGED << isDataLoaded, appHistory, lastListHash, activeDistrictContext,
                    districtFeatureMap, bldgIdToDistrict, selectedBuildingLayer,
                    selectedDistrictLayer, districtsLayerShown, sheetPanel,
                    rightSheetCard, surveyLayer, searchInputValue,
                    isMapFollowEnabled, districtsTimers, showPropertyTimers,
                    refreshTimers, visited, roundTrip,
                    currentDropdownResults, asideVars >>

InitCap == Init /\ locationHash \in {"", "#districts", "#landmarks"}

NextCap ==
    \/ LoadComplete
    \/ NavigateFresh
    \/ HashChange
    \/ DistrictsTimerFires

SpecCap == InitCap /\ [][NextCap]_vars

(***************************************************************************)
(* Serialising a route and parsing the hash back                           *)
(***************************************************************************)
\* the characters of the payloads: a letter, the separator of the hash, a
\* blank, the escape character and a character encodeURIComponent escapes
PayloadAlphabet == {"a", "/", " ", "%", "+"}

RECURSIVE StringsUpTo(_)
StringsUpTo(n) ==
    IF n = 0 THEN {""}
    ELSE StringsUpTo(n - 1) \cup
            { s \o c : s \in StringsUpTo(n - 1), c \in PayloadAlphabet }

Payloads == StringsUpTo(MaxPayloadLen)

\* every representable route within the bounds
Routes ==
    { RouteRec(v, 0, "", "") : v \in {"Home", "Landmarks", "DistrictsList", "SurveyRoot"} }
    \cup { RouteRec("Property", id, "", "") : id \in 0..MaxRouteId }
    \cup { RouteRec(v, 0, "", t) : v \in {"District", "Search"}, t \in Payloads }
    \cup { RouteRec("SurveyDimension", 0, d, "") : d \in CategoricalModes }
    \cup { RouteRec("SurveyDimensionValue", 0, d, t) : d \in CategoricalModes, t \in Payloads }

InitRT ==
    /\ InitApp
    /\ indexBuild = NoBuild
    /\ searchRun = NoSearchRun
    /\ locationHash = ""
    /\ \E r \in Routes :
          roundTrip = [stage |-> "route", route |-> r, token |-> "", parsed |-> HomeRoute]

\* a handler assigns the hash of the route; token is what location.hash reads
SerializeRoute ==
    /\ roundTrip.stage = "route"
    /\ roundTrip' = [roundTrip EXCEPT !.stage = "token",
                                      !.token = HashAfterAssign(Serialize(roundTrip.route))]
    /\ UNCHANGED << isDataLoaded, locationHash, pendingHashChanges, appHistory,
                    lastListHash, activeDistrictContext, districtFeatureMap,
                    bldgIdToDistrict, selectedBuildingLayer, selectedDistrictLayer,
                    districtsLayerShown, sheetPanel, rightSheetCard, surveyLayer,
                    searchInputValue, isMapFollowEnabled, districtsTimers,
                    showPropertyTimers, refreshTimers, visited,
                    currentDropdownResults, asideVars >>

\* handleHashChange selects its branch and reads the payload
ParseToken ==
    /\ roundTrip.stage = "token"
    /\ roundTrip' = [roundTrip EXCEPT !.stage = "parsed",
                                      !.parsed = ParseRoute(roundTrip.token)]
    /\ UNCHANGED << isDataLoaded, locationHash, pendingHashChanges, appHistory,
                    lastListHash, activeDistrictContext, districtFeatureMap,
                    bldgIdToDistrict, selectedBuildingLayer, selectedDistrictLayer,
                    districtsLayerShown, sheetPanel, rightSheetCard, surveyLayer,
                    searchInputValue, isMapFollowEnabled, districtsTimers,
                    showPropertyTimers, refreshTimers, visited,
                    currentDropdownResults, asideVars >>

NextRT ==
    \/ SerializeRoute
    \/ ParseToken

SpecRT == InitRT /\ [][NextRT]_vars

(***************************************************************************)
(* Vocabulary of the properties                                            *)
(***************************************************************************)
DistrictHash(name) == Serialize(RouteRec("District", 0, "", name))

PropertyHash(id) == Serialize(RouteRec("Property", id, "", ""))

\* the entities the reverse index maps to region r
MappedTo(r) == { id \in DOMAIN BuildBldgIdToDistrict : BuildBldgIdToDistrict[id] = r }

\* the resolutions so far end with the hashes of suffix, in this order
EndsWith(seq, suffix) ==
    /\ Len(seq) >= Len(suffix)
    /\ SubSeq(seq, Len(seq) - Len(suffix) + 1, Len(seq)) = suffix

\* this step is a run of handleHashChange past its load gate; the hash it
\* resolves is then the last of visited'
Resolves == visited' # visited

Resolved == Last(visited')

\* the token grammar of the navigation hash: home, property/id, district/name,
\* search/query, landmarks, districts, survey[/dimension[/value]], the name,
\* query and value percent-encoded
IsId(s) == s # "" /\ \A i \in 1..Len(s) : IsDigit(CharAt(s, i))

IsPercentEncoded(s) == decodeURIComponent(s) # URIError

MatchesGrammar(hash) ==
    LET parts == Split(hash)
    IN  \/ hash \in {"", "#", "#home", "#landmarks", "#districts", "#survey"}
        \/ Len(parts) = 2 /\ parts[1] = "#property" /\ IsId(parts[2])
        \/ /\ Len(parts) = 2
           /\ parts[1] \in {"#district", "#search"}
           /\ IsPercentEncoded(parts[2])
        \/ /\ Len(parts) \in {2, 3}
           /\ parts[1] = "#survey"
           /\ parts[2] \in CategoricalModes
           /\ Len(parts) = 3 => IsPercentEncoded(parts[3])

(***************************************************************************)
(* Properties                                                              *)
(***************************************************************************)
\* C1: from a resolved District(r) of an existing region r, through Property(a)
\* to Property(b) with a and b both reverse-mapped to r, activeDistrictContext
\* is r after each of the three resolutions.
C1_ContextKeptAcrossProperties ==
    \A r \in DistrictNames : \A a \in MappedTo(r), b \in MappedTo(r) :
        /\ EndsWith(visited, << DistrictHash(r) >>) => activeDistrictContext = r
        /\ EndsWith(visited, << DistrictHash(r), PropertyHash(a) >>)
              => activeDistrictContext = r
        /\ EndsWith(visited, << DistrictHash(r), PropertyHash(a), PropertyHash(b) >>)
              => activeDistrictContext = r

\* the last n entries of seq (all of them when there are no more than n)
LastN(seq, n) == IF Len(seq) <= n THEN seq ELSE SubSeq(seq, Len(seq) - n + 1, Len(seq))

AdjacentDiffer(seq) == \A i \in 1..(Len(seq) - 1) : seq[i] # seq[i + 1]

\* C2: appHistory never holds more than 300 entries, and as long as each hash
\* resolved differs from the one before, it holds the last 300 hashes resolved
\* (all of them while there are no more), in visit order: the 301st push has
\* removed the oldest entry.
C2_HistoryCapped ==
    /\ Len(appHistory) <= HistoryCap
    /\ AdjacentDiffer(visited) => appHistory = LastN(visited, HistoryCap)

\* 301 different hashes resolved: the first has left the full stack
C2_Witness ==
    /\ Len(visited) = HistoryCap + 1
    /\ Len(appHistory) = HistoryCap
    /\ appHistory[1] = visited[2]
    /\ Last(appHistory) = Last(visited)
    /\ \A i \in 1..Len(appHistory) : appHistory[i] # visited[1]

\* C3: a hash is pushed only onto an empty stack or onto a top that differs from
\* it, so whatever the navigations, evictions and close-property clicks so far,
\* no two adjacent entries of appHistory are equal.
C3_NoAdjacentDuplicates == AdjacentDiffer(appHistory)

\* the hash on top has been resolved twice in a row and is there once
C3_Witness ==
    /\ Len(visited) >= 2
    /\ visited[Len(visited)] = visited[Len(visited) - 1]
    /\ Len(appHistory) >= 2
    /\ Last(appHistory) = Last(visited)

\* C4: a hash that does not match the token grammar (a hash that merely starts
\* with #survey included) resolves to the Home state: the default panel, the
\* survey layer in mode 'default', no activeDistrictContext.
C4_UnrecognisedResolvesHome ==
    [][ (Resolves /\ ~MatchesGrammar(Resolved))
            => /\ sheetPanel'.kind = "default"
               /\ surveyLayer'.mode = "default"
               /\ activeDistrictContext' = Null ]_vars

\* C5: the hash written for a route selects, when parsed, the same route
\* variant with the same decoded payload (id, dimension, name, query or value),
\* also when the payload holds "/" or blanks.
C5_RoundTrip == roundTrip.stage = "parsed" => roundTrip.parsed = roundTrip.route

\* a dimension value with a slash and a blank has gone through
C5_Witness ==
    /\ roundTrip.stage = "parsed"
    /\ roundTrip.route = RouteRec("SurveyDimensionValue", 0, "architect", "/ ")
    /\ roundTrip.token = "#survey/architect/%2F%20"
    /\ roundTrip.parsed.text = "/ "

Range(seq) == { seq[i] : i \in 1..Len(seq) }

\* C6 as stated: before the load completes no step changes the history, the
\* context or the highlights; the load's completion resolves the hash current
\* at that moment, once; the hashes of before never enter the history; and no
\* navigation event of before the load is left to be handled after it.
C6_NoEventSurvivesLoad ==
    [][ /\ (~isDataLoaded /\ ~isDataLoaded')
            => UNCHANGED << appHistory, activeDistrictContext, selectedBuildingLayer,
                            selectedDistrictLayer, visited >>
        /\ (~isDataLoaded /\ isDataLoaded')
            => visited' = << locationHash >> /\ appHistory' = << locationHash >>
        /\ Range(appHistory') \subseteq Range(visited')
        /\ (isDataLoaded' /\ visited' = << locationHash' >>) => pendingHashChanges' = 0
      ]_vars

\* C6, amended: the gate is on the handler, not on the browser's queue.  Before
\* the load completes no step changes the history, the context or the
\* highlights; the load's completion resolves the hash current at that moment,
\* once; the hashes of before never enter the history; a hashchange event
\* dispatched after the load for a hash already resolved last resolves it again
\* and leaves the history as it is.
C6_LoadGate ==
    [][ /\ (~isDataLoaded /\ ~isDataLoaded')
            => UNCHANGED << appHistory, activeDistrictContext, selectedBuildingLayer,
                            selectedDistrictLayer, visited >>
        /\ (~isDataLoaded /\ isDataLoaded')
            => visited' = << locationHash >> /\ appHistory' = << locationHash >>
        /\ Range(appHistory') \subseteq Range(visited')
        /\ (isDataLoaded /\ Resolves /\ visited # << >> /\ Resolved = Last(visited)
                /\ Len(appHistory) > 0 /\ Last(appHistory) = Resolved)
            => appHistory' = appHistory
      ]_vars

\* an event queued before the load has been dispatched after it: the hash the
\* load resolved has been resolved a second time and is in the history once
C6_Witness ==
    /\ isDataLoaded
    /\ pendingHashChanges = 0
    /\ Len(visited) = 2
    /\ visited[1] = visited[2]
    /\ appHistory = << visited[1] >>

\* C7: after the resolution of a hash that selects District(name),
\* activeDistrictContext is name, for every name, whatever the previous route
\* and the previous context.
C7_DistrictSetsContext ==
    [][ (Resolves /\ ParseRoute(Resolved).variant = "District")
            => activeDistrictContext' = ParseRoute(Resolved).text ]_vars

\* the owning region of the property a hash names, Null when it has none
OwningRegion(hash) ==
    LET id == ParseRoute(hash).id
    IN  IF id \in DOMAIN BuildBldgIdToDistrict THEN BuildBldgIdToDistrict[id] ELSE Null

\* C8: with no activeDistrictContext, the resolution of Property(b) after
\* Property(a), a and b different existing entities reverse-mapped to the same
\* region r, leaves activeDistrictContext = r.
C8_SameRegionPropertySetsContext ==
    [][ ( /\ Resolves
          /\ activeDistrictContext = Null
          /\ visited # << >>
          /\ ParseRoute(Last(visited)).variant = "Property"
          /\ ParseRoute(Resolved).variant = "Property"
          /\ ParseRoute(Last(visited)).id # ParseRoute(Resolved).id
          /\ OwningRegion(Last(visited)) # Null
          /\ OwningRegion(Last(visited)) = OwningRegion(Resolved) )
            => activeDistrictContext' = OwningRegion(Resolved) ]_vars

\* the hash below the top of the history after this resolution: the previous
\* route the handler looks at, Null when there is none
PreviousRoute ==
    IF Len(appHistory') >= 2 THEN appHistory'[Len(appHistory') - 1] ELSE Null

\* one of the preserve rules applies to this resolution of a property hash: a
\* context is set already, the previous route is a district, or the previous
\* route is another property of the owning region
PreserveRuleApplies ==
    \/ activeDistrictContext # Null
    \/ (PreviousRoute # Null /\ StartsWith(PreviousRoute, "#district/"))
    \/ /\ OwningRegion(Resolved) # Null
       /\ PreviousRoute # Null
       /\ StartsWith(PreviousRoute, "#property/")
       /\ OwningRegion(PreviousRoute) = OwningRegion(Resolved)

\* the resolution of a property hash sets the sentinel only when no preserve
\* rule applies and the previous route is one of from; from any other previous
\* route, when no preserve rule applies, it leaves the context absent
SentinelOnlyFrom(from) ==
    (Resolves /\ ParseRoute(Resolved).variant = "Property")
        => /\ (activeDistrictContext' = ALL_DISTRICTS /\ activeDistrictContext # ALL_DISTRICTS)
                => (~PreserveRuleApplies /\ PreviousRoute \in from)
           /\ (~PreserveRuleApplies /\ PreviousRoute \notin from)
                => activeDistrictContext' = Null

\* C9 as stated: a transition to Property(id) sets activeDistrictContext to
\* __ALL_DISTRICTS__ only when no preserve rule applies and the previous route
\* is DistrictsList or there is none; from any other previous route, Home
\* included, it leaves activeDistrictContext absent.
C9_SentinelNotFromHome == [][ SentinelOnlyFrom({Null, "#districts"}) ]_vars

\* C9, amended: a transition to Property(id) sets activeDistrictContext to
\* __ALL_DISTRICTS__ only when no preserve rule applies and the previous route
\* is DistrictsList, Home, or there is none; from any other previous route,
\* when no preserve rule applies, it leaves activeDistrictContext absent.
C9_SentinelFromListHomeOrNone == [][ SentinelOnlyFrom({Null, "", "#", "#districts"}) ]_vars

\* a property opened from Home carries the sentinel
C9_Witness ==
    /\ EndsWith(visited, <<"", "#property/1">>)
    /\ EndsWith(appHistory, <<"", "#property/1">>)
    /\ activeDistrictContext = ALL_DISTRICTS

\* the routes that are neither Property nor District
OtherRoutes ==
    {"Home", "Search", "Landmarks", "DistrictsList", "SurveyRoot", "SurveyDimension",
     "SurveyDimensionValue"}

\* C10: after the resolution of a hash whose route is neither Property nor
\* District (Home, Search, Landmarks, DistrictsList, SurveyRoot,
\* SurveyDimension, SurveyDimensionValue), activeDistrictContext is absent,
\* whatever it was before.
C10_OtherRoutesClearContext ==
    [][ (Resolves /\ ParseRoute(Resolved).variant \in OtherRoutes)
            => activeDistrictContext' = Null ]_vars

\* a district's context, then the sentinel, each cleared by the next route
C10_Witness ==
    \/ /\ EndsWith(visited, <<"#district/Elm%20Park", "#landmarks">>)
       /\ activeDistrictContext = Null
    \/ /\ EndsWith(visited, <<"#districts", "#property/1", "#search/oak">>)
       /\ activeDistrictContext = Null

\* C11: every resolution after the load leaves the suggestion list
\* (currentDropdownResults) empty, and leaves a building highlighted only when
\* the hash is Property(id) for an existing entity, and then exactly that one.
C11_TransientStateCleared ==
    [][ Resolves =>
          /\ currentDropdownResults' = << >>
          /\ selectedBuildingLayer' # {} =>
                /\ ParseRoute(Resolved).variant = "Property"
                /\ FeatureExists(ParseRoute(Resolved).id)
                /\ selectedBuildingLayer' = {ParseRoute(Resolved).id} ]_vars

\* the user typed "main" on a property, then went to the landmarks or to
\* another property: the suggestions are gone, and so is the first highlight
C11_Witness ==
    \/ /\ EndsWith(visited, <<"#property/1", "#landmarks">>)
       /\ searchInputValue = "main"
       /\ currentDropdownResults = << >>
       /\ selectedBuildingLayer = {}
    \/ /\ EndsWith(visited, <<"#property/1", "#property/2">>)
       /\ searchInputValue = "main"
       /\ currentDropdownResults = << >>
       /\ selectedBuildingLayer = {2}

(***************************************************************************)
(* C12: highlight exclusivity                                              *)
(***************************************************************************)
\* the features of a group that can be drawn: those with a centroid
Drawable(features) == { id \in features : FeatureById(id).centroid # Null }

\* the last operation was setHighlight of a non-empty group while a highlight
\* was active
ReplacedHighlight ==
    /\ highlightCall.op = "setHighlight"
    /\ highlightCall.features # {}
    /\ highlightCall.wasOrigin # Null

\* C12 as stated: after setHighlight with origin y and a non-empty subset S2,
\* called while a highlight with origin x is active, there is exactly one
\* highlight, its origin is y and the highlighted subset is S2.
C12_HighlightIsTheSubset ==
    ReplacedHighlight =>
        /\ highlightOrigin = highlightCall.origin
        /\ highlightLayer = highlightCall.features

\* C12, amended: after setHighlight with origin y and a non-empty subset S2,
\* called while a highlight with origin x is active, the origin is y and the
\* highlighted features are exactly the members of S2 that have a centroid
\* (none of the earlier subset unless it is in S2 too); the active button is
\* the one passed, or none.
C12_HighlightExclusive ==
    ReplacedHighlight =>
        /\ highlightOrigin = highlightCall.origin
        /\ highlightLayer = Drawable(highlightCall.features)
        /\ highlightControlButton \in {Null, highlightCall.origin}

\* the landmarks were highlighted with feature 1 drawn, then the red group
\* with feature 4
C12_Witness ==
    /\ ReplacedHighlight
    /\ highlightCall.wasOrigin = "landmarks_chicago"
    /\ highlightCall.wasLayer = {1}
    /\ highlightCall.origin = "survey/color:Red"
    /\ highlightCall.features = {4}
    /\ highlightLayer = {4}

(***************************************************************************)
(* C13: the highlight toggle                                               *)
(***************************************************************************)
NoHighlight ==
    /\ highlightOrigin = Null
    /\ highlightLayer = {}
    /\ highlightControlButton = Null

Toggled == highlightCall.op = "handleHighlightToggle"

\* a toggle of the key that was active leaves no highlight
ToggleOfActiveClears ==
    (Toggled /\ highlightCall.origin = highlightCall.wasOrigin) => NoHighlight

\* clearHighlight leaves no highlight, whatever was shown
ClearEmpties == highlightCall.op = "clearHighlight" => NoHighlight

\* a second toggle of a key, after a first one that found no highlight and a
\* non-empty cached group, leaves no highlight again
SecondToggleReturnsToNone ==
    [][ ( /\ Toggled
          /\ highlightCall.wasOrigin = Null
          /\ highlightCall.features # {}
          /\ highlightCall'.op = "handleHighlightToggle"
          /\ highlightCall'.origin = highlightCall.origin
          /\ highlightCall'.wasOrigin = highlightCall.origin )
        => NoHighlight' ]_vars

\* C13 as stated: a toggle of the active key clears the highlight; a toggle
\* of any other key makes that key the only active origin; clearHighlight
\* empties the highlight from any state; two toggles of one key with a
\* non-empty cached subset return to no highlight.
C13_ToggleSetsAnyOtherKey ==
    /\ [](ToggleOfActiveClears /\ ClearEmpties)
    /\ []((Toggled /\ highlightCall.origin # highlightCall.wasOrigin)
            => highlightOrigin = highlightCall.origin)
    /\ SecondToggleReturnsToNone

\* C13, amended: a toggle of the active key clears the highlight; a toggle
\* of another key whose cached subset is non-empty makes that key the only
\* active origin, with its button active, and a toggle of another key whose
\* cached subset is empty or missing leaves no highlight; clearHighlight
\* empties the highlight from any state; two toggles of one key with a
\* non-empty cached subset return to no highlight.
C13_Toggle ==
    /\ [](ToggleOfActiveClears /\ ClearEmpties)
    /\ []((Toggled /\ highlightCall.origin # highlightCall.wasOrigin)
            => IF highlightCall.features # {}
               THEN /\ highlightOrigin = highlightCall.origin
                    /\ highlightControlButton = highlightCall.origin
                    /\ highlightLayer = Drawable(highlightCall.features)
               ELSE NoHighlight)
    /\ SecondToggleReturnsToNone

\* the button of the contributing landmarks was clicked while the Chicago
\* landmarks were highlighted; or the active button was clicked
C13_Witness ==
    /\ Toggled
    /\ \/ /\ highlightCall.wasOrigin = "landmarks_chicago"
          /\ highlightCall.wasLayer = {1}
          /\ highlightCall.origin = "landmarks_contributing"
          /\ highlightCall.features = {4}
          /\ highlightOrigin = "landmarks_contributing"
          /\ highlightLayer = {4}
       \/ /\ highlightCall.wasOrigin = "landmarks_chicago"
          /\ highlightCall.wasLayer = {1}
          /\ highlightCall.origin = "landmarks_chicago"
          /\ NoHighlight

(***************************************************************************)
(* C14: the debounce of the viewport refresh                               *)
(***************************************************************************)
\* at most one timer is pending, it is the one mapMoveTimer holds, and since
\* the last moveend exactly one timer is pending or has expired
OneRefreshPending ==
    /\ Cardinality(mapMoveTimer.scheduled) <= 1
    /\ mapMoveTimer.scheduled = mapMoveTimer.handle
    /\ mapMoveTimer.issued > 0 =>
          Cardinality(mapMoveTimer.scheduled) + mapMoveTimer.ran = 1
    /\ mapMoveTimer.refreshed <= mapMoveTimer.ran

\* a moveend leaves only the timer it scheduled; the expiry after a burst
\* leaves none
MoveReschedules ==
    [][ /\ MapMoveEnd =>
            /\ mapMoveTimer'.scheduled = {mapMoveTimer'.issued}
            /\ mapMoveTimer'.issued \notin mapMoveTimer.scheduled
        /\ MapMoveTimerFires =>
            /\ mapMoveTimer.burst >= 1
            /\ mapMoveTimer'.scheduled = {}
            /\ mapMoveTimer'.ran = 1 ]_vars

\* C14: at most one viewport refresh is pending at any time; every moveend
\* cancels the pending one and schedules a new one, so a burst of n >= 1
\* events without an expiry in between causes exactly one refresh, after the
\* last event of the burst.
C14_ViewportDebounce ==
    /\ []OneRefreshPending
    /\ MoveReschedules
    /\ (mapMoveTimer.burst >= 1) ~> (mapMoveTimer.burst = 0 /\ mapMoveTimer.ran = 1)

\* three moveend events in a row, then the one expiry, which refreshed the
\* colour list that follows the map
C14_Witness ==
    /\ mapMoveTimer.issued = MaxMoves
    /\ mapMoveTimer.burst = 0
    /\ mapMoveTimer.ran = 1
    /\ mapMoveTimer.refreshed = 1
    /\ mapMoveTimer.scheduled = {}
    /\ isMapFollowEnabled
    /\ locationHash = "#survey/color"

(***************************************************************************)
(* C15: a route is resolved in one piece                                   *)
(***************************************************************************)
\* C15: every change made by resolving a route happens inside the handler of
\* that event, and no deferred step of an earlier resolution runs after a
\* later route has been resolved: when the deferred update of the districts
\* list runs, #districts is still the route resolved last, so that after
\* DistrictsList and then another route X the panel and the survey-layer
\* filter stay those of X.
C15_NoDeferredStepAfterLaterRoute ==
    [][ (DistrictsTimerFires \/ RefreshTimerFires) =>
            /\ visited # << >>
            /\ Last(visited) = "#districts" ]_vars

(***************************************************************************)
(* C16: the two maps of the index agree with the geometry and each other   *)
(***************************************************************************)
\* the centroid of feature e lies in the geometry of district k, boundary
\* included
CentroidInDistrict(e, k) ==
    LET c == indexBuild.centroids[e]
        g == indexBuild.districts[k].geometry
    IN  /\ c # Null
        /\ g # << >>
        /\ g[1].x1 <= c[1] /\ c[1] <= g[1].x2
        /\ g[1].y1 <= c[2] /\ c[2] <= g[1].y2

\* C16: every entity in forward[r] has its centroid inside the polygon of r
\* (of a district named r), and reverse[e] = r implies that e is in
\* forward[r]; at every step of the build.
C16_IndexConsistent ==
    /\ \A r \in DOMAIN indexBuild.forward :
          \A i \in 1..Len(indexBuild.forward[r]) :
              \E k \in 1..Len(indexBuild.districts) :
                  /\ indexBuild.districts[k].NAME = r
                  /\ CentroidInDistrict(indexBuild.forward[r][i], k)
    /\ \A e \in DOMAIN indexBuild.reverse :
          /\ indexBuild.reverse[e] \in DOMAIN indexBuild.forward
          /\ \E i \in 1..Len(indexBuild.forward[indexBuild.reverse[e]]) :
                 indexBuild.forward[indexBuild.reverse[e]][i] = e

BuildDone ==
    /\ indexBuild.districts # << >>
    /\ indexBuild.next > Len(indexBuild.districts)

\* the build is over: feature 1 is in Elm Park, feature 2 on the common
\* border is in both lists, feature 3 has no centroid and is in no list
C16_Witness ==
    /\ BuildDone
    /\ indexBuild.districts[1].NAME = "Ridge"
    /\ indexBuild.districts[2].NAME = "Elm Park"
    /\ indexBuild.centroids[3] = Null
    /\ indexBuild.forward["Ridge"] = << 2 >>
    /\ indexBuild.forward["Elm Park"] = << 1, 2 >>
    /\ indexBuild.reverse = (1 :> "Elm Park") @@ (2 :> "Ridge")

(***************************************************************************)
(* C17: the first district that holds a feature keeps it in the reverse    *)
(* map                                                                     *)
(***************************************************************************)
\* the districts indexed so far that hold the centroid of e
IndexedHolders(e) ==
    { k \in 1..(indexBuild.next - 1) :
        Truthy(indexBuild.districts[k].NAME) /\ CentroidInDistrict(e, k) }

\* the reverse entry of every feature is the name of the first district, in
\* build order, that holds it
FirstHolderKept ==
    \A e \in IndexIds :
        IF IndexedHolders(e) = {} THEN e \notin DOMAIN indexBuild.reverse
        ELSE /\ e \in DOMAIN indexBuild.reverse
             /\ \E k \in IndexedHolders(e) :
                    /\ \A j \in IndexedHolders(e) : k <= j
                    /\ indexBuild.reverse[e] = indexBuild.districts[k].NAME

\* C17: if the centroid of an entity lies in regions A and B and A comes
\* first in build order (national, then city), the reverse index gives A, and
\* no later step of the build overwrites an entry.
C17_FirstMatchWins ==
    /\ []FirstHolderKept
    /\ [][ \A e \in DOMAIN indexBuild.reverse :
              /\ e \in DOMAIN indexBuild'.reverse
              /\ indexBuild'.reverse[e] = indexBuild.reverse[e] ]_vars

\* feature 2 lies in the national district Ridge and in the city district
\* Elm Park; after the build the reverse index gives Ridge
C17_Witness ==
    /\ BuildDone
    /\ indexBuild.districts[1].NAME = "Ridge"
    /\ indexBuild.districts[2].NAME = "Elm Park"
    /\ CentroidInDistrict(2, 1)
    /\ CentroidInDistrict(2, 2)
    /\ indexBuild.reverse[2] = "Ridge"

(***************************************************************************)
(* C18: the index is only read once it is built                            *)
(***************************************************************************)
\* C18: after the build no navigation, refresh, follow toggle or highlight
\* operation changes the content or the order of a forward list or an entry
\* of the reverse map.
C18_IndexReadOnly ==
    [][ isDataLoaded =>
            /\ districtFeatureMap' = districtFeatureMap
            /\ bldgIdToDistrict' = bldgIdToDistrict ]_vars

(***************************************************************************)
(* C19: closing a property                                                 *)
(***************************************************************************)
\* getLastNonPropertyHash(), with Home for none
LastNonPropertyRoute ==
    IF Truthy(LastNonPropertyBelow(appHistory, Len(appHistory)))
    THEN HashAfterAssign(LastNonPropertyBelow(appHistory, Len(appHistory)))
    ELSE ""

\* C19: close-property on a Property route leads to the most recent
\* non-property route of the history, or to Home if there is none; its
\* resolution, which puts that route on top of the history, is due.
C19_CloseGoesToLastNonProperty ==
    [][ (CloseProperty /\ StartsWith(locationHash, "#property/")) =>
            /\ locationHash' = LastNonPropertyRoute
            /\ pendingHashChanges' = 1 ]_vars

(***************************************************************************)
(* C20: a failed lookup shows no match                                     *)
(***************************************************************************)
\* the hash names a property or a district that does not exist
LookupFails(hash) ==
    \/ /\ ParseRoute(hash).variant = "Property"
       /\ ~FeatureExists(ParseRoute(hash).id)
    \/ /\ ParseRoute(hash).variant = "District"
       /\ ~DistrictExists(ParseRoute(hash).text)

\* the panels that list entities
EntityListPanels == {"district", "detail", "landmarks", "search"}

\* C20: resolving Property(id) of a non-existent entity or District(name) of
\* a non-existent region raises no error and records the route in the
\* history, and what is shown has no entity list, no emphasized region and no
\* highlighted building left over from the previous route.
C20_LookupFailureShowsNoMatch ==
    [][ (Resolves /\ LookupFails(Resolved)) =>
            /\ sheetPanel'.kind # "error"
            /\ Last(appHistory') = Resolved
            /\ sheetPanel'.kind \notin EntityListPanels
            /\ selectedDistrictLayer' = Null
            /\ selectedBuildingLayer' = {}
            /\ rightSheetCard' = {} ]_vars

(***************************************************************************)
(* Queries through normalizeSearchQuery                                    *)
(***************************************************************************)
\* the longest query drawn character by character
MaxQueryLen == 3

\* the characters of the drawn queries: blank, period, a digit and letters
\* that spell an ordinal suffix
QueryAlphabet == {" ", ".", "1", "a", "s", "t"}

RECURSIVE QueriesUpTo(_)
QueriesUpTo(n) ==
    IF n = 0 THEN {""}
    ELSE QueriesUpTo(n - 1) \cup
            { s \o c : s \in QueriesUpTo(n - 1), c \in QueryAlphabet }

\* the drawn queries and two written-out addresses
NormalizeInputs == QueriesUpTo(MaxQueryLen) \cup {"108th St.", "108 ST"}

InitNormalize ==
    /\ InitApp
    /\ locationHash = ""
    /\ roundTrip = Idle
    /\ indexBuild = NoBuild
    /\ \E s \in NormalizeInputs :
          searchRun = [stage |-> "typed", query |-> s, once |-> "", twice |-> ""]

\* const query = normalizeSearchQuery(rawQuery)
NormalizeOnce ==
    /\ searchRun.stage = "typed"
    /\ searchRun' = [searchRun EXCEPT !.stage = "once",
                                      !.once = normalizeSearchQuery(searchRun.query)]
    /\ UNCHANGED << isDataLoaded, locationHash, pendingHashChanges, appHistory,
                    lastListHash, activeDistrictContext, districtFeatureMap,
                    bldgIdToDistrict, selectedBuildingLayer, selectedDistrictLayer,
                    districtsLayerShown, sheetPanel, rightSheetCard, surveyLayer,
                    searchInputValue, isMapFollowEnabled, districtsTimers,
                    showPropertyTimers, refreshTimers, visited, roundTrip,
                    currentDropdownResults, highlightVars, mapMoveTimer,
                    indexBuild, mapBounds, currentNavigationList >>

\* the normalised query handed to normalizeSearchQuery again
NormalizeAgain ==
    /\ searchRun.stage = "once"
    /\ searchRun' = [searchRun EXCEPT !.stage = "twice",
                                      !.twice = normalizeSearchQuery(searchRun.once)]
    /\ UNCHANGED << isDataLoaded, locationHash, pendingHashChanges, appHistory,
                    lastListHash, activeDistrictContext, districtFeatureMap,
                    bldgIdToDistrict, selectedBuildingLayer, selectedDistrictLayer,
                    districtsLayerShown, sheetPanel, rightSheetCard, surveyLayer,
                    searchInputValue, isMapFollowEnabled, districtsTimers,
                    showPropertyTimers, refreshTimers, visited, roundTrip,
                    currentDropdownResults, highlightVars, mapMoveTimer,
                    indexBuild, mapBounds, currentNavigationList >>

NextNormalize == NormalizeOnce \/ NormalizeAgain

SpecNormalize == InitNormalize /\ [][NextNormalize]_vars

(***************************************************************************)
(* C21: normalisation is idempotent                                        *)
(***************************************************************************)
\* C21: normalizeSearchQuery applied to its own result gives that result
\* again, for every string, those with periods next to leading or trailing
\* blanks included, and "108th St." and "108 ST" normalise to the same string.
C21_NormalizeIdempotent ==
    /\ searchRun.stage = "twice" => searchRun.twice = searchRun.once
    /\ normalizeSearchQuery("108th St.") = normalizeSearchQuery("108 ST")

\* the part of C21 that the code keeps: the two addresses agree
C21_SameAddress ==
    normalizeSearchQuery("108th St.") = normalizeSearchQuery("108 ST")

(***************************************************************************)
(* Queries through searchFeatures and its callers                          *)
(***************************************************************************)
\* the most features one drawn collection holds
MaxCollection == 12

\* the addresses the collections are cut from: for the query "main" there are
\* prefix matches, substring matches, addresses at distance 1, 2 and 3 of it
\* and addresses further away
Street ==
    << "9 OAK ST", "MANE LN", "100 MAIN ST", "MAIN CT", "MAIL RD", "102 MAIN ST",
       "7 ELM CT", "MAINE AVE", "108 ST", "55 MAIN PL", "MAPLE AVE", "MAIN ST",
       "12 OAK DR" >>

\* formatAddress (lines 3487-3494) gives the address field when the parts are
\* missing; the id of a feature is its place in the street
StreetFeature(k) == [BLDG_ID |-> k, address |-> Street[k]]

Reversed(s) == [k \in 1..Len(s) |-> s[Len(s) + 1 - k]]

\* surveyData.features: a stretch of the street, in either direction
Collections ==
    LET all == [k \in 1..Len(Street) |-> StreetFeature(k)]
        cuts == { SubSeq(all, i, j) : i \in 1..Len(Street), j \in 0..Len(Street) }
    IN  { c \in cuts \cup { Reversed(c) : c \in cuts } : Len(c) <= MaxCollection }

\* what is typed: nothing, blanks, one to three characters, a match word, misspelt
\* words, a written-out address and a query far from every address
EngineQueries ==
    { "", "   ", "m", "ma", "mai", "main", "mian", "zzzz", "100 mian st",
      "108th Street", "zzzzzzzzzzzz" }

InitEngine ==
    /\ InitApp
    /\ locationHash = ""
    /\ roundTrip = Idle
    /\ indexBuild = NoBuild
    /\ \E c \in Collections, q \in EngineQueries :
          searchRun = [stage |-> "typed", caller |-> "", features |-> c, query |-> q,
                       shown |-> "", list |-> << >>, matched |-> FALSE]

\* the ids at the places of a collection that pass a test, in feature order
RECURSIVE AddressFilter(_, _, _)
AddressFilter(features, q, i) ==
    IF i > Len(features) THEN << >>
    ELSE (IF includes(toLowerCase(features[i].address), q)
          THEN << features[i].BLDG_ID >> ELSE << >>)
         \o AddressFilter(features, q, i + 1)

\* what a caller of the search shows: shown is what appears, list the ids in
\* it, matched whether the features were gone through
Outcome(shown, list, matched) == [shown |-> shown, list |-> list, matched |-> matched]

\* lines 3026-3034 and renderWelcomeSearchResults (4434-4458): the search box
\* of the welcome panel
WelcomeOutcome(features, rawQuery) ==
    IF Len(rawQuery) > 0
    THEN LET results == SearchFeaturesIn(features, rawQuery)
         IN  Outcome(IF Len(results) = 0 THEN "hidden" ELSE "list", results, TRUE)
    ELSE Outcome("hidden", << >>, FALSE)

\* showSearchDropdown (lines 3166-3196) on a feature collection: the
\* suggestions under the header search box; clearSearchDropdown hides them
InlineOutcome(features, query) ==
    IF query = "" \/ Len(query) < 2 THEN Outcome("hidden", << >>, FALSE)
    ELSE LET results == SearchFeaturesIn(features, query)
         IN  Outcome(IF Len(results) = 0 THEN "hidden" ELSE "list", results, TRUE)

\* handleSearch (lines 1483-1506) and buildSearchPanel (1511-1547) on a
\* feature collection with "Follow map" off: the message for a short query,
\* the one property, or the panel with its list ("No matching properties
\* found." when it is empty)
FullOutcome(features, query) ==
    IF query = "" \/ Len(query) < 3 THEN Outcome("too-short", << >>, FALSE)
    ELSE LET results == AddressFilter(features, trim(toLowerCase(query)), 1)
         IN  Outcome(IF Len(results) = 1 THEN "property" ELSE "panel", results, TRUE)

\* one caller runs on the drawn collection and query
Call(caller, o) ==
    /\ searchRun.stage = "typed"
    /\ searchRun' = [searchRun EXCEPT !.stage = "done", !.caller = caller,
                                      !.shown = o.shown, !.list = o.list,
                                      !.matched = o.matched]
    /\ UNCHANGED << isDataLoaded, locationHash, pendingHashChanges, appHistory,
                    lastListHash, activeDistrictContext, districtFeatureMap,
                    bldgIdToDistrict, selectedBuildingLayer, selectedDistrictLayer,
                    districtsLayerShown, sheetPanel, rightSheetCard, surveyLayer,
                    searchInputValue, isMapFollowEnabled, districtsTimers,
                    showPropertyTimers, refreshTimers, visited, roundTrip,
                    currentDropdownResults, highlightVars, mapMoveTimer,
                    indexBuild, mapBounds, currentNavigationList >>

WelcomeLookup == Call("welcome", WelcomeOutcome(searchRun.features, searchRun.query))

InlineSuggest == Call("inline", InlineOutcome(searchRun.features, searchRun.query))

FullSearch == Call("route", FullOutcome(searchRun.features, searchRun.query))

NextEngine == WelcomeLookup \/ InlineSuggest \/ FullSearch

SpecEngine == InitEngine /\ [][NextEngine]_vars

\* the run of the engine that a state shows: the place of a returned id in the
\* collection and its score for the normalised query
EngineRan == searchRun.stage = "done" /\ searchRun.caller \in {"welcome", "inline"}

PlaceOf(id) == CHOOSE k \in 1..Len(searchRun.features) : searchRun.features[k].BLDG_ID = id

\* the normalised queries and addresses and, for each query, the score of
\* each address of the street
NormQueries == [q \in EngineQueries |-> normalizeSearchQuery(q)]

NormStreet == [k \in 1..Len(Street) |-> normalizeSearchQuery(Street[k])]

StreetScores ==
    [q \in EngineQueries |-> [k \in 1..Len(Street) |-> SearchScore(Street[k], NormQueries[q])]]

ScoreOf(id) == StreetScores[searchRun.query][id]

(***************************************************************************)
(* C22: search ranking                                                     *)
(***************************************************************************)
\* C22: searchFeatures returns its candidates in ascending score (prefix
\* matches, then the other substring matches, then fuzzy matches by
\* distance), and candidates of equal score in the order of the collection.
C22_Ranking ==
    EngineRan =>
        \A i \in 1..Len(searchRun.list), j \in 1..Len(searchRun.list) :
            i < j =>
                LET a == searchRun.list[i]
                    b == searchRun.list[j]
                IN  /\ ScoreOf(a) <= ScoreOf(b)
                    /\ ScoreOf(a) = ScoreOf(b) => PlaceOf(a) < PlaceOf(b)

\* a result that holds a prefix match, another substring match and a fuzzy
\* match, two candidates of equal score among them, from a collection in
\* which a fuzzy match stands before a prefix match
C22_Witness ==
    /\ EngineRan
    /\ \E a, b, c \in Range(searchRun.list) :
          /\ ScoreOf(a) = -1 /\ ScoreOf(b) = 0 /\ ScoreOf(c) > 0
          /\ PlaceOf(c) < PlaceOf(a)
    /\ \E a, b \in Range(searchRun.list) : a # b /\ ScoreOf(a) = ScoreOf(b)

(***************************************************************************)
(* C23: which fuzzy candidates are returned                                *)
(***************************************************************************)
\* searchFeatures has been called with a query it works on, and its cap of
\* ten has cut nothing off
EngineCalled ==
    /\ EngineRan
    /\ searchRun.query # ""
    /\ searchRun.caller = "inline" => Len(searchRun.query) >= 2
    /\ Len(searchRun.list) < 10

\* the normalised address of the candidate holds the normalised query
Contains(id) == includes(NormStreet[id], NormQueries[searchRun.query])

\* the edit distance between the normalised query and the prefix of the same
\* length of the candidate's normalised address
StreetDistances ==
    [q \in EngineQueries |-> [k \in 1..Len(Street) |->
        LET n == IF Len(NormQueries[q]) < Len(NormStreet[k])
                 THEN Len(NormQueries[q]) ELSE Len(NormStreet[k])
        IN  levenshteinDistance(NormQueries[q], SubSeq(NormStreet[k], 1, n))]]

DistanceOf(id) == StreetDistances[searchRun.query][id]

Candidates == { searchRun.features[k].BLDG_ID : k \in 1..Len(searchRun.features) }

AddressMatches ==
    { id \in Candidates :
        includes(toLowerCase(Street[id]), trim(toLowerCase(searchRun.query))) }

\* the list of a Search route holds every match
RouteNotTruncated ==
    (searchRun.stage = "done" /\ searchRun.caller = "route" /\ searchRun.shown # "too-short")
        => Range(searchRun.list) = AddressMatches

\* the lookup of the welcome panel shows ten results at most
WelcomeCap ==
    (searchRun.stage = "done" /\ searchRun.caller = "welcome") => Len(searchRun.list) <= 10

\* C24: the inline suggestion list never holds more than 5 results, the
\* lookup of the welcome panel never more than 10, and the result set of a
\* Search route is not truncated.
C24_ResultCaps ==
    /\ (searchRun.stage = "done" /\ searchRun.caller = "inline") => Len(searchRun.list) <= 5
    /\ WelcomeCap
    /\ RouteNotTruncated

\* the two caps of C24 that the code keeps
C24_WelcomeAndRoute == WelcomeCap /\ RouteNotTruncated

\* a Search route that lists more than ten entities, and a welcome lookup cut
\* to ten
C24_RouteLong ==
    searchRun.stage = "done" /\ searchRun.caller = "route" /\ Len(searchRun.list) > 10

(***************************************************************************)
(* C25: a query that is too short                                          *)
(***************************************************************************)
\* queries of full length that match no address of the street
UnmatchedQueries == {"zzzz", "zzzzzzzzzzzz"}

\* what the user can see of the run
Observed == << searchRun.shown, searchRun.list >>

\* what the caller shows for a long-enough query without a match
ZeroMatchOutcomes(caller) ==
    LET outs == { IF caller = "route" THEN FullOutcome(searchRun.features, q)
                  ELSE InlineOutcome(searchRun.features, q) : q \in UnmatchedQueries }
    IN  { << o.shown, o.list >> : o \in { p \in outs : p.matched /\ p.list = << >> } }

TooShort ==
    /\ searchRun.stage = "done"
    /\ \/ searchRun.caller = "route" /\ Len(searchRun.query) < 3
       \/ searchRun.caller = "inline" /\ Len(searchRun.query) < 2

\* C25: a full-search query of fewer than 3 characters and an inline query of
\* fewer than 2 characters give an outcome that can be told from the outcome
\* of a long-enough query with no match, and neither matching nor navigation
\* is done for them.
C25_InsufficientInputDistinct ==
    TooShort =>
        /\ Observed \notin ZeroMatchOutcomes(searchRun.caller)
        /\ ~searchRun.matched
        /\ searchRun.shown # "property"

\* the part of C25 that the code keeps: the full search tells a short query
\* from an unmatched one, and neither caller matches or navigates
C25_FullSearchDistinct ==
    TooShort =>
        /\ searchRun.caller = "route" => Observed \notin ZeroMatchOutcomes("route")
        /\ searchRun.caller = "route" => ZeroMatchOutcomes("route") # {}
        /\ ~searchRun.matched
        /\ searchRun.shown # "property"

(***************************************************************************)
(* C26: the Search route and the search engine                             *)
(***************************************************************************)
\* C26: the entities that resolving Search(query) lists are the entities the
\* engine matches for that query, without its cap.
C26_RouteUsesEngine ==
    (searchRun.stage = "done" /\ searchRun.caller = "route" /\ searchRun.matched)
        => Range(searchRun.list) = Range(RankedMatches(searchRun.features, searchRun.query))

\* the example of C26: the route lists "108 ST" for the query "108th Street"
C26_WrittenOutAddress ==
    ( /\ searchRun.stage = "done" /\ searchRun.caller = "route"
      /\ searchRun.query = "108th Street"
      /\ 9 \in Candidates ) => 9 \in Range(searchRun.list)

(***************************************************************************)
(* A session with the list panels: routes, "Follow map", map moves and     *)
(* the highlight buttons                                                   *)
(***************************************************************************)
PanelTokens ==
    { "#survey/color", "#survey/color/Red", "#landmarks", "#district/Elm%20Park",
      "#search/main" }

NavigateToPanel == NavigateTo(PanelTokens)

\* how many times a behaviour of the panel session moves the map
MaxPanelMoves == 1

\* the map comes to rest in one of the views (the moveend listener)
MapMoveOnPanel == mapMoveTimer.issued < MaxPanelMoves /\ MapMoveEnd

\* the highlight buttons the sheet shows: a list panel renders one for every
\* group it cached (line 1636), the landmarks panel its two (lines 1435, 1442)
PanelButtons ==
    IF sheetPanel.kind = "list" THEN DOMAIN highlightFeatureCache
    ELSE IF sheetPanel.kind = "landmarks"
    THEN {"landmarks_chicago", "landmarks_contributing"}
    ELSE {}

\* A click on a highlight button of the sheet (lines 490-497).
HighlightButtonClick ==
    /\ isDataLoaded
    /\ pendingHashChanges = 0
    /\ \E key \in PanelButtons :
          StoreHighlight(handleHighlightToggle(HighlightState, key),
                         "handleHighlightToggle", key,
                         CachedFeatures(HighlightState, key))
    /\ UnchangedByHighlight

InitPanels == Init /\ locationHash \in PanelTokens

NextPanels ==
    \/ LoadComplete
    \/ NavigateToPanel
    \/ HashChangeDropped
    \/ HashChange
    \/ FollowMapToggle
    \/ MapMoveOnPanel
    \/ MapMoveTimerFires
    \/ HighlightButtonClick

SpecPanels == InitPanels /\ [][NextPanels]_vars

\* the step runs refreshPanel on loaded data: the "Follow map" button was
\* clicked, or a timer of the moveend listener expired and refreshed
Refreshes ==
    /\ isDataLoaded
    /\ ~Resolves
    /\ \/ isMapFollowEnabled' # isMapFollowEnabled
       \/ mapMoveTimer'.refreshed = mapMoveTimer.refreshed + 1

\* the route the step resolves or refreshes the panel of
BuiltRoute ==
    ParseRoute(IF Resolves THEN Resolved ELSE RefreshHash(locationHash, appHistory))

(***************************************************************************)
(* C27: the highlight of a value of a survey dimension                     *)
(***************************************************************************)
\* the entities whose attribute of the dimension is the value
WithValue(dim, value) == { id \in BldgIds : AttrOf(FeatureById(id), dim) = value }

\* C27: each time SurveyDimensionValue(dim, value) is resolved or refreshed,
\* the highlighted subset is the set of all entities whose dim is value (those
\* that can be drawn), whatever list panels were built before and with
\* whatever "Follow map" state and viewport.
C27_HighlightIsWholeGroup ==
    [][ ((Resolves \/ Refreshes) /\ BuiltRoute.variant = "SurveyDimensionValue")
            => /\ highlightOrigin' = HighlightKeyOf(BuiltRoute.dim, BuiltRoute.text)
               /\ highlightLayer' = Drawable(WithValue(BuiltRoute.dim, BuiltRoute.text)) ]_vars

\* the part of C27 that the code keeps: what is highlighted has the value
C27_HighlightWithinGroup ==
    [][ ((Resolves \/ Refreshes) /\ BuiltRoute.variant = "SurveyDimensionValue")
            => highlightLayer' \subseteq WithValue(BuiltRoute.dim, BuiltRoute.text) ]_vars

(***************************************************************************)
(* C28: refreshPanel and the highlight                                     *)
(***************************************************************************)
\* C28: refreshPanel (run by the "Follow map" button and by the debounced
\* viewport refresh) does not clear or replace the highlight: origin and
\* highlighted subset are after it what they were before it, on every route.
C28_RefreshKeepsHighlight ==
    [][ Refreshes => /\ highlightOrigin' = highlightOrigin
                     /\ highlightLayer' = highlightLayer ]_vars

\* a refresh of the panel of a value of a survey dimension, once the route is
\* resolved, sets the highlight that the resolution set
C28_DetailRefreshKeepsHighlight ==
    [][ (Refreshes /\ pendingHashChanges = 0 /\ BuiltRoute.variant = "SurveyDimensionValue")
            => /\ highlightOrigin' = highlightOrigin
               /\ highlightLayer' = highlightLayer ]_vars

(***************************************************************************)
(* C29: what the lists hold                                                *)
(***************************************************************************)
\* the base predicate of a route that lists entities
BaseSet(route) ==
    CASE route.variant = "SurveyDimensionValue" -> WithValue(route.dim, route.text)
      [] route.variant = "District" ->
            { id \in BldgIds : \E k \in 1..Len(allDistricts) :
                /\ allDistricts[k].NAME = route.text
                /\ FeatureById(id).centroid # Null
                /\ iBooleanPointInPolygon(FeatureById(id).centroid, allDistricts[k].geometry) }
      [] route.variant = "Landmarks" -> { id \in BldgIds : FeatureById(id).landmark }
      [] route.variant = "Search" -> SearchResults(route.text)
      [] OTHER -> {}

ListRoutes == {"SurveyDimensionValue", "District", "Landmarks", "Search"}

\* the panel that lists the entities of a route
ListPanelOf(route) ==
    CASE route.variant = "SurveyDimensionValue" -> Panel("detail", route.dim, route.text)
      [] route.variant = "District" -> Panel("district", "", route.text)
      [] route.variant = "Landmarks" -> Panel("landmarks", "", "")
      [] route.variant = "Search" -> Panel("search", "", route.text)
      [] OTHER -> Panel("default", "", "")

\* the base set, cut to the entities in view when "Follow map" is on
Composed(route) ==
    IF isMapFollowEnabled' THEN BaseSet(route) \cap getFeaturesInView(mapBounds')
    ELSE BaseSet(route)

\* C29: when a SurveyDimensionValue, District, Landmarks or Search route is
\* resolved or refreshed, the sheet shows the list of the route, and the list
\* holds the base set of the route ("Follow map" off) or the entities of the
\* base set that are in view ("Follow map" on).
C29_ListComposition ==
    [][ ((Resolves \/ Refreshes) /\ BuiltRoute.variant \in ListRoutes)
            => /\ sheetPanel' = ListPanelOf(BuiltRoute)
               /\ Range(currentNavigationList') = Composed(BuiltRoute) ]_vars

\* the navigation list alone, whatever the sheet shows
C29_ListContents ==
    [][ ((Resolves \/ Refreshes) /\ BuiltRoute.variant \in ListRoutes)
            => Range(currentNavigationList') = Composed(BuiltRoute) ]_vars

\* C29 without the refresh of a Search route
C29_ListCompositionButSearchRefresh ==
    [][ ( /\ Resolves \/ Refreshes
          /\ BuiltRoute.variant \in ListRoutes
          /\ ~(Refreshes /\ BuiltRoute.variant = "Search") )
            => /\ sheetPanel' = ListPanelOf(BuiltRoute)
               /\ Range(currentNavigationList') = Composed(BuiltRoute) ]_vars

(***************************************************************************)
(* The centroids: from the input records to the index and the view filter  *)
(***************************************************************************)
\* Number(v) for the values a coordinate property holds: "" is 0, a run of
\* digits its value, any other text NaN
ToNumber(v) ==
    IF v = "" THEN 0
    ELSE IF \A i \in 1..Len(v) : IsDigit(CharAt(v, i)) THEN DigitRun(v, 1, 0)
    ELSE NaN

\* the pairs (Centroid_X, Centroid_Y) of the input records; Null is undefined
RawPairs == { << Null, Null >>, << "2", "1" >>, << "2", Null >>, << "x", "1" >>, << "", "1" >> }

\* what turf.centroid does on the geometry of a record: a point, a point of
\* NaN coordinates (no coordinate in the geometry), an exception, no result
TurfOutcomes ==
    { [does |-> "returns", point |-> << 1, 1 >>],
      [does |-> "returns", point |-> << NaN, NaN >>],
      [does |-> "throws", point |-> << >>],
      [does |-> "returns nothing", point |-> << >>] }

RawFeatures == { [x |-> p[1], y |-> p[2], turf |-> o] : p \in RawPairs, o \in TurfOutcomes }

\* iCentroid(f) with the test of lines 293 and 4182: the coordinates, or Null
\* when it throws or returns nothing
turfCentroid(raw) == IF raw.turf.does = "returns" THEN raw.turf.point ELSE Null

\* the body of preprocessSurveyData for one feature: f._centroid
preprocessCentroid(raw) ==
    IF raw.x # Null /\ raw.y # Null THEN << ToNumber(raw.x), ToNumber(raw.y) >>
    ELSE turfCentroid(raw)

\* lines 289-300 of the index loop: the centroid of the feature, computed
\* once more where preprocessSurveyData left none
CentroidForIndex(raw, centroid) ==
    IF centroid # Null THEN centroid ELSE turfCentroid(raw)

CentroidDistricts ==
    << [NAME |-> "Elm Park", geometry |-> << Rect(0, 0, 2, 2) >>],
       [NAME |-> "Ridge", geometry |-> << Rect(1, 0, 3, 2) >>] >>

RECURSIVE IndexDistricts(_, _)
IndexDistricts(build, k) ==
    IF k > Len(build.districts) THEN build
    ELSE IndexDistricts(IndexDistrict(build, build.districts[k]), k + 1)

UnchangedByCentroids ==
    UNCHANGED << isDataLoaded, locationHash, pendingHashChanges, appHistory,
                 lastListHash, activeDistrictContext, districtFeatureMap,
                 bldgIdToDistrict, selectedBuildingLayer, selectedDistrictLayer,
                 districtsLayerShown, sheetPanel, rightSheetCard, surveyLayer,
                 searchInputValue, isMapFollowEnabled, districtsTimers,
                 showPropertyTimers, refreshTimers, visited, roundTrip,
                 currentDropdownResults, highlightVars, mapMoveTimer,
                 searchRun, mapBounds, currentNavigationList >>

\* the load callback: preprocessSurveyData, then the build of the two maps
LoadSources ==
    /\ indexBuild.stage = "loaded"
    /\ LET centroids == [ id \in IndexIds |-> preprocessCentroid(indexBuild.features[id]) ]
           retried == [ id \in IndexIds |->
                          CentroidForIndex(indexBuild.features[id], centroids[id]) ]
           built == IndexDistricts(StartBuild(CentroidDistricts, retried), 1)
       IN  indexBuild' = [indexBuild EXCEPT !.stage = "indexed",
                                            !.centroids = retried,
                                            !.forward = built.forward,
                                            !.reverse = built.reverse]
    /\ UnchangedByCentroids

\* getFeaturesInView() on some visible bounds
ViewFeatures ==
    /\ indexBuild.stage \in {"indexed", "viewed"}
    /\ \E bounds \in MapViews :
          indexBuild' = [indexBuild EXCEPT
                            !.stage = "viewed",
                            !.bounds = bounds,
                            !.inView = { id \in IndexIds :
                                           CentroidInView(indexBuild.centroids[id], bounds) }]
    /\ UnchangedByCentroids

InitCentroids ==
    /\ InitApp
    /\ roundTrip = Idle
    /\ searchRun = NoSearchRun
    /\ locationHash = ""
    /\ \E features \in [IndexIds -> RawFeatures] :
          indexBuild = [ stage |-> "loaded", features |-> features,
                         centroids |-> << >>, forward |-> << >>, reverse |-> << >>,
                         bounds |-> WholeMap, inView |-> {} ]

NextCentroids == LoadSources \/ ViewFeatures

SpecCentroids == InitCentroids /\ [][NextCentroids]_vars

(***************************************************************************)
(* C30: entities without a centroid                                        *)
(***************************************************************************)
\* the input record has a centroid that can be computed: the precomputed pair
\* where it is present, else the centroid of the geometry, is a pair of numbers
Computable(raw) ==
    IF raw.x # Null /\ raw.y # Null
    THEN ToNumber(raw.x) # NaN /\ ToNumber(raw.y) # NaN
    ELSE /\ raw.turf.does = "returns"
         /\ raw.turf.point[1] # NaN /\ raw.turf.point[2] # NaN

InForwardList(id) ==
    \E name \in DOMAIN indexBuild.forward : InSeq(id, indexBuild.forward[name])

\* C30: an entity without a computable centroid is in no forward list, has no
\* reverse entry and is never in the in-view set of the "Follow map" filter.
C30_NoCentroidNoResult ==
    indexBuild.stage \in {"indexed", "viewed"}
        => \A id \in IndexIds :
              ~Computable(indexBuild.features[id])
                  => /\ ~InForwardList(id)
                     /\ id \notin DOMAIN indexBuild.reverse
                     /\ id \notin indexBuild.inView

\* the view was filtered over a feature whose pair is not a pair of numbers,
\* a feature whose geometry has no centroid, and a feature that is indexed
\* and in view
C30_Witness ==
    /\ indexBuild.stage = "viewed"
    /\ \E a, b, c \in IndexIds :
          /\ indexBuild.features[a].x = "x"
          /\ indexBuild.features[b].x = Null /\ indexBuild.features[b].turf.does = "throws"
          /\ Computable(indexBuild.features[c])
          /\ InForwardList(c) /\ c \in DOMAIN indexBuild.reverse /\ c \in indexBuild.inView

(***************************************************************************)
(* levenshteinDistance on drawn pairs of strings                           *)
(***************************************************************************)
\* the longest string of a measured pair
MaxLevLen == 3

LevAlphabet == {"a", "b", "c"}

RECURSIVE StringsOver(_, _)
StringsOver(alphabet, n) ==
    IF n = 0 THEN {""}
    ELSE LET shorter == StringsOver(alphabet, n - 1)
         IN  shorter \cup { s \o c : s \in shorter, c \in alphabet }

LevStrings == StringsOver(LevAlphabet, MaxLevLen)

InitLev ==
    /\ InitApp
    /\ roundTrip = Idle
    /\ indexBuild = NoBuild
    /\ locationHash = ""
    /\ \E a, b \in LevStrings :
          searchRun = [stage |-> "typed", a |-> a, b |-> b, ab |-> 0, ba |-> 0]

\* levenshteinDistance(a, b), and with the arguments exchanged
MeasureDistance ==
    /\ searchRun.stage = "typed"
    /\ searchRun' = [searchRun EXCEPT
                        !.stage = "measured",
                        !.ab = levenshteinDistance(searchRun.a, searchRun.b),
                        !.ba = levenshteinDistance(searchRun.b, searchRun.a)]
    /\ UNCHANGED << isDataLoaded, locationHash, pendingHashChanges, appHistory,
                    lastListHash, activeDistrictContext, districtFeatureMap,
                    bldgIdToDistrict, selectedBuildingLayer, selectedDistrictLayer,
                    districtsLayerShown, sheetPanel, rightSheetCard, surveyLayer,
                    searchInputValue, isMapFollowEnabled, districtsTimers,
                    showPropertyTimers, refreshTimers, visited, roundTrip,
                    currentDropdownResults, highlightVars, mapMoveTimer,
                    indexBuild, mapBounds, currentNavigationList >>

NextLev == MeasureDistance

SpecLev == InitLev /\ [][NextLev]_vars

(***************************************************************************)
(* C31: levenshteinDistance is the edit distance                           *)
(***************************************************************************)
\* the edit distance of the first i characters of a and the first j of b, by
\* its recurrence: insertion, deletion and substitution cost 1 each
RECURSIVE EditDistance(_, _, _, _)
EditDistance(a, b, i, j) ==
    IF i = 0 THEN j
    ELSE IF j = 0 THEN i
    ELSE Min3(EditDistance(a, b, i - 1, j) + 1,
              EditDistance(a, b, i, j - 1) + 1,
              EditDistance(a, b, i - 1, j - 1)
                  + (IF CharAt(a, i) = CharAt(b, j) THEN 0 ELSE 1))

\* C31: levenshteinDistance(a, b) is the edit distance with unit costs: it is
\* symmetric, 0 exactly when a = b, and the length of the other string when
\* one string is empty.
C31_EditDistance ==
    searchRun.stage = "measured"
        => /\ searchRun.ab = EditDistance(searchRun.a, searchRun.b,
                                          Len(searchRun.a), Len(searchRun.b))
           /\ searchRun.ab = searchRun.ba
           /\ (searchRun.ab = 0) <=> (searchRun.a = searchRun.b)
           /\ searchRun.a = "" => searchRun.ab = Len(searchRun.b)
           /\ searchRun.b = "" => searchRun.ab = Len(searchRun.a)

\* a pair was measured whose distance needs a substitution, a deletion and
\* a kept character
C31_Witness ==
    /\ searchRun.stage = "measured"
    /\ searchRun.a = "abc" /\ searchRun.b = "cb"
    /\ searchRun.ab = 2

(***************************************************************************)
(* getDecade and the decade attribute set by preprocessSurveyData          *)
(***************************************************************************)
\* dateStr.match(/\d{4}/): the position of the first four digits in a row at
\* or after position i, 0 when there are none
RECURSIVE MatchFourDigits(_, _)
MatchFourDigits(s, i) ==
    IF i + 3 > Len(s) THEN 0
    ELSE IF \A k \in i..(i + 3) : IsDigit(CharAt(s, k)) THEN i
    ELSE MatchFourDigits(s, i + 1)

\* the table of lines 3936-3943 with its first bound taken inclusively
DecadeOfYearInclusive(year) ==
    IF year <= 1880 THEN "1870s or earlier"
    ELSE IF year < 1890 THEN "1880s"
    ELSE IF year < 1900 THEN "1890s"
    ELSE IF year < 1910 THEN "1900s"
    ELSE IF year < 1920 THEN "1910s"
    ELSE IF year < 1930 THEN "1920s"
    ELSE IF year < 1940 THEN "1930s"
    ELSE "1940 or later"

\* lines 3936-3943
DecadeOfYear(year) ==
    IF year < 1880 THEN "1870s or earlier"
    ELSE IF year < 1890 THEN "1880s"
    ELSE IF year < 1900 THEN "1890s"
    ELSE IF year < 1910 THEN "1900s"
    ELSE IF year < 1920 THEN "1910s"
    ELSE IF year < 1930 THEN "1920s"
    ELSE IF year < 1940 THEN "1930s"
    ELSE "1940 or later"

\* getDecade (lines 3928-3944) of a value of the type and text given; Null is
\* its null
getDecade(date) ==
    IF date.type # "string" \/ date.text = "" THEN Null
    ELSE LET at == MatchFourDigits(date.text, 1)
         IN  IF at = 0 THEN Null
             ELSE DecadeOfYear(ParseInt(SubSeq(date.text, at, at + 3)))

\* the years, the text before and the text after them that the built dates
\* are made of
YearTexts ==
    { "0000", "1799", "1879", "1880", "1889", "1890", "1899", "1900", "1909",
      "1910", "1919", "1920", "1929", "1930", "1939", "1940", "2024", "9999" }

TextsBefore == { "", "c. ", "12 ", "187-", "1" }

TextsAfter == { "", "5", " or 1950", "-1871" }

\* texts without four digits in a row
TextsWithoutYear == { "", "abc", "189", "18 90", "1-8-9-0", "c. 190 5" }

\* CHRS_Built_Date: a text, a number (its digits as the text) or undefined
BuiltDates ==
    { [type |-> "string", text |-> b \o y \o a] :
         b \in TextsBefore, y \in YearTexts, a \in TextsAfter }
    \cup { [type |-> "string", text |-> s] : s \in TextsWithoutYear }
    \cup { [type |-> "number", text |-> y] : y \in YearTexts }
    \cup { [type |-> "undefined", text |-> ""] }

InitDecade ==
    /\ InitApp
    /\ roundTrip = Idle
    /\ indexBuild = NoBuild
    /\ locationHash = ""
    /\ \E date \in BuiltDates :
          searchRun = [stage |-> "loaded", CHRS_Built_Date |-> date, decade |-> Null]

\* lines 4164-4169 of preprocessSurveyData for one feature
PreprocessDecade ==
    /\ searchRun.stage = "loaded"
    /\ LET decade == getDecade(searchRun.CHRS_Built_Date)
       IN  searchRun' = [searchRun EXCEPT
                            !.stage = "preprocessed",
                            !.decade = IF Truthy(decade) THEN decade ELSE @]
    /\ UNCHANGED << isDataLoaded, locationHash, pendingHashChanges, appHistory,
                    lastListHash, activeDistrictContext, districtFeatureMap,
                    bldgIdToDistrict, selectedBuildingLayer, selectedDistrictLayer,
                    districtsLayerShown, sheetPanel, rightSheetCard, surveyLayer,
                    searchInputValue, isMapFollowEnabled, districtsTimers,
                    showPropertyTimers, refreshTimers, visited, roundTrip,
                    currentDropdownResults, highlightVars, mapMoveTimer,
                    indexBuild, mapBounds, currentNavigationList >>

NextDecade == PreprocessDecade

SpecDecade == InitDecade /\ [][NextDecade]_vars

(***************************************************************************)
(* C32: the decade of a built date                                         *)
(***************************************************************************)
\* the places of a text where four digits stand in a row
FourDigitRuns(s) ==
    { i \in 1..Len(s) : i + 3 <= Len(s) /\ \A k \in i..(i + 3) : IsDigit(CharAt(s, k)) }

\* the year the first of them spells
FirstYear(s) ==
    LET i == CHOOSE i \in FourDigitRuns(s) : \A k \in FourDigitRuns(s) : i <= k
    IN  DigitVal(CharAt(s, i)) * 1000 + DigitVal(CharAt(s, i + 1)) * 100
        + DigitVal(CharAt(s, i + 2)) * 10 + DigitVal(CharAt(s, i + 3))

\* C32: getDecade reads the first four digits in a row of the built date as
\* the year y and gives "1870s or earlier" for y < 1880, the label of
\* floor(y/10)*10 for 1880 <= y < 1940 and "1940 or later" for y >= 1940; a
\* text without four digits in a row, or a value that is no text, gives no
\* decade, and the entity gets no decade attribute.
C32_DecadeBuckets ==
    searchRun.stage = "preprocessed"
        => LET date == searchRun.CHRS_Built_Date
           IN  IF date.type # "string" \/ FourDigitRuns(date.text) = {}
               THEN searchRun.decade = Null
               ELSE LET y == FirstYear(date.text)
                    IN  searchRun.decade =
                            IF y < 1880 THEN "1870s or earlier"
                            ELSE IF y >= 1940 THEN "1940 or later"
                            ELSE NumToStr((y \div 10) * 10) \o "s"

\* a date with a second year after the first one got the decade of the first
C32_Witness ==
    /\ searchRun.stage = "preprocessed"
    /\ searchRun.CHRS_Built_Date.text = "c. 1880 or 1950"
    /\ searchRun.decade = "1880s"

(***************************************************************************)
(* C33: the viewport refresh is guarded when its timer expires             *)
(***************************************************************************)
\* the step is an expiry of a timer of the moveend listener
Expires == mapMoveTimer'.ran = mapMoveTimer.ran + 1

\* the step runs no refreshPanel: what refreshPanel writes is left as it was
NoRefresh ==
    /\ mapMoveTimer'.refreshed = mapMoveTimer.refreshed
    /\ UNCHANGED << sheetPanel, surveyLayer, districtsLayerShown, refreshTimers,
                    districtFeatureMap, builtVars >>

C33_RefreshWhenDue ==
    [][ ( /\ Expires
          /\ isMapFollowEnabled
          /\ mapMoveTimer'.expanded
          /\ ~StartsWith(locationHash, "#property/") )
            => mapMoveTimer'.refreshed = mapMoveTimer.refreshed + 1 ]_vars

C34_ContextIsARegion ==
    \/ activeDistrictContext = Null
    \/ activeDistrictContext = ALL_DISTRICTS
    \/ DistrictExists(activeDistrictContext)

\* the same where a District route is resolved: the context is then absent,
\* the marker or an existing name
C34_DistrictBranchChecksName ==
    [][ (Resolves /\ ParseRoute(Resolved).variant = "District")
            => \/ activeDistrictContext' = Null
               \/ activeDistrictContext' = ALL_DISTRICTS
               \/ DistrictExists(activeDistrictContext') ]_vars

(***************************************************************************)
(* C35: the top of the history stack is the current hash                   *)
(***************************************************************************)
\* C35: once the data is loaded and every event is handled (navigation, the
\* close of a property, the back button, a refresh; no hashchange is on its
\* way), the top entry of appHistory is the current hash.
C35_TopIsCurrentHash ==
    (isDataLoaded /\ pendingHashChanges = 0)
        => /\ appHistory # << >>
           /\ Last(appHistory) = locationHash

\* the card of a property was closed towards the list it was opened from
\* (the property is below the top of the stack), with "Follow map" switched on
C35_Witness ==
    /\ isDataLoaded
    /\ pendingHashChanges = 0
    /\ Len(appHistory) = 3
    /\ StartsWith(appHistory[2], "#property/")
    /\ appHistory[3] = appHistory[1]
    /\ appHistory[3] = lastListHash
    /\ Last(appHistory) = locationHash
    /\ isMapFollowEnabled

(***************************************************************************)
(* A session in which a property is left only by the close button          *)
(***************************************************************************)
CloseTokens ==
    { "", "#property/1", "#search/oak", "#search/main", "#landmarks",
      "#district/Elm%20Park" }

\* the user follows a link while no property is open
NavigateForward ==
    /\ ~StartsWith(locationHash, "#property/")
    /\ NavigateTo(CloseTokens)

InitClose == Init /\ locationHash \in CloseTokens

NextClose ==
    \/ LoadComplete
    \/ NavigateForward
    \/ HashChangeDropped
    \/ HashChange
    \/ CloseProperty
    \/ ShowPropertyTimerFires

SpecClose == InitClose /\ [][NextClose]_vars

(***************************************************************************)
(* C36: where the close of a property comes to rest                        *)
(***************************************************************************)
\* the step resolves the route the close button went to: a route that is no
\* Property route, resolved with a property on top of the history
ResolvesAfterClose ==
    /\ Resolves
    /\ appHistory # << >>
    /\ StartsWith(Last(appHistory), "#property/")
    /\ ~StartsWith(Resolved, "#property/")

\* the handler neither goes to a property nor sets a timer that will
StaysOffProperty ==
    /\ ~StartsWith(locationHash', "#property/")
    /\ showPropertyTimers' = << >>

\* C36: after the close of a property the application comes to rest on a
\* route that is no Property route: resolving the route it returns to causes
\* no navigation back to a property without the user, also when that route is
\* a Search with exactly one match.
C36_RestsOffProperty ==
    [][ ResolvesAfterClose => StaysOffProperty ]_vars

\* the same for every route but a Search with exactly one match
C36_RestsUnlessSingleMatch ==
    [][ ( /\ ResolvesAfterClose
          /\ ~( /\ ParseRoute(Resolved).variant = "Search"
                /\ Cardinality(SearchResults(ParseRoute(Resolved).text)) = 1 ) )
            => StaysOffProperty ]_vars

(***************************************************************************)
(* C37: how long the marker __ALL_DISTRICTS__ lasts                        *)
(***************************************************************************)
\* with the marker as context, a Property route is resolved after a Property
\* route
PropertyAfterProperty ==
    /\ Resolves
    /\ activeDistrictContext = ALL_DISTRICTS
    /\ appHistory # << >>
    /\ StartsWith(Last(appHistory), "#property/")
    /\ StartsWith(Resolved, "#property/")

\* with the marker as context, a route that is no Property route is resolved
LeavesProperties ==
    /\ Resolves
    /\ activeDistrictContext = ALL_DISTRICTS
    /\ ~StartsWith(Resolved, "#property/")

\* C37: once activeDistrictContext is the marker __ALL_DISTRICTS__ it stays
\* the marker across consecutive Property-to-Property transitions, and the
\* first transition to a route that is no Property route replaces or clears it.
C37_SentinelLifetime ==
    [][ /\ PropertyAfterProperty => activeDistrictContext' = ALL_DISTRICTS
        /\ LeavesProperties => activeDistrictContext' # ALL_DISTRICTS ]_vars

\* the first half alone
C37_SentinelKeptAmongProperties ==
    [][ PropertyAfterProperty => activeDistrictContext' = ALL_DISTRICTS ]_vars

\* the second half for every route but a District route whose name cannot be
\* decoded or names no district
C37_SentinelLeftOnKnownRoutes ==
    [][ ( /\ LeavesProperties
          /\ ~( /\ StartsWith(Resolved, "#district/")
                /\ ~( /\ ParseRoute(Resolved).variant = "District"
                      /\ DistrictExists(ParseRoute(Resolved).text) ) ) )
            => activeDistrictContext' # ALL_DISTRICTS ]_vars

(***************************************************************************)
(* C38: the highlight after a route that is no Property route              *)
(***************************************************************************)
\* the highlight origins the panel of a route sets
KeysOfRoute(route) ==
    IF route.variant = "SurveyDimensionValue"
    THEN { HighlightKeyOf(route.dim, route.text) }
    ELSE IF route.variant = "Landmarks"
    THEN { "landmarks_chicago", "landmarks_contributing" }
    ELSE IF route.variant = "District" THEN { "district:" \o route.text }
    ELSE { }

\* a route that is no Property route is resolved
ResolvesOffProperty ==
    /\ Resolves
    /\ ~StartsWith(Resolved, "#property/")

\* C38: after the resolution of a route that is no Property route the
\* highlight origin is absent or a key of that route; no highlight of an
\* earlier route survives, on a Search route in particular.
C38_HighlightOfTheRoute ==
    [][ ResolvesOffProperty =>
            \/ highlightOrigin' = Null
            \/ highlightOrigin' \in KeysOfRoute(ParseRoute(Resolved)) ]_vars

\* the same for the routes whose branch clears or sets the highlight: the
\* survey routes, Landmarks, the districts list, Home and the District route
\* of an existing district
C38_HighlightOfBuiltRoutes ==
    [][ ( /\ ResolvesOffProperty
          /\ \/ ParseRoute(Resolved).variant \in
                    { "SurveyDimensionValue", "SurveyDimension", "SurveyRoot",
                      "Landmarks", "DistrictsList", "Home" }
             \/ /\ ParseRoute(Resolved).variant = "District"
                /\ DistrictExists(ParseRoute(Resolved).text) )
            => \/ highlightOrigin' = Null
               \/ highlightOrigin' \in KeysOfRoute(ParseRoute(Resolved)) ]_vars

(***************************************************************************)
(* The back button of the panels                                           *)
(***************************************************************************)
\* the panels whose header holds a button of class back-button (lines 1357,
\* 1427, 1552, 1644-1846, 1881-2014, 2157); the property card has none
BackButtonPanels == { "districts", "landmarks", "survey", "list", "detail", "district" }

\* getLastNonPropertyHash (lines 4270-4276): the topmost entry of appHistory
\* that is no property hash, null for none and for an empty one
getLastNonPropertyHash(hist) ==
    LET h == LastNonPropertyBelow(hist, Len(hist))
    IN  IF Truthy(h) THEN h ELSE Null

\* lines 551-563: where the back button goes from a hash that is neither a
\* survey subroute nor a top-level panel
BackFromElsewhere(currentHash, ctx, selD, lastNonProp) ==
    IF \/ StartsWith(currentHash, "#district/")
       \/ Truthy(ctx)
       \/ Truthy(selD)
       \/ /\ lastNonProp # Null
          /\ (lastNonProp = "#districts" \/ StartsWith(lastNonProp, "#district/"))
    THEN "#districts"
    ELSE IF lastNonProp # Null /\ lastNonProp = "#landmarks" THEN "#landmarks"
    ELSE IF lastNonProp # Null /\ StartsWith(lastNonProp, "#survey") THEN "#survey"
    ELSE "#"

\* lines 526-545: the survey subroutes go one level up
BackFromSurvey(currentHash) ==
    LET dims == { d \in CategoricalModes : StartsWith(currentHash, "#survey/" \o d \o "/") }
    IN  IF dims # {} THEN "#survey/" \o (CHOOSE d \in dims : TRUE)
        ELSE IF \E d \in CategoricalModes : currentHash = "#survey/" \o d THEN "#survey"
        ELSE Null

\* the handler of the right sheet (lines 621-658), which has no branch for the
\* top-level panels
BackTargetOfRightSheet(currentHash, ctx, selD, hist) ==
    IF BackFromSurvey(currentHash) # Null THEN BackFromSurvey(currentHash)
    ELSE BackFromElsewhere(currentHash, ctx, selD, getLastNonPropertyHash(hist))

\* lines 522-563: the hash the back button of the sheet assigns
BackTarget(currentHash, ctx, selD, hist) ==
    IF BackFromSurvey(currentHash) # Null THEN BackFromSurvey(currentHash)
    ELSE IF currentHash \in { "#districts", "#landmarks", "#survey" } THEN "#"
    ELSE BackFromElsewhere(currentHash, ctx, selD, getLastNonPropertyHash(hist))

\* how many back actions a behaviour of the back-button session takes, and
\* after how many resolutions it takes no further one
MaxBackDepth == 3

\* history of the back-button session: the hashes the back button was clicked
\* on, in order
NoBacks == [stage |-> "back", trail |-> << >>]

\* A click on the back button of the sheet (lines 520-565): navigateToPanel
\* (lines 4370-4429) shows the district layers for '#districts' and assigns
\* the hash, navigateHomeWithTrace (lines 4357-4364) assigns '#'.  The map
\* moves they start end in moveend events of their own.
BackButton ==
    /\ sheetPanel.kind \in BackButtonPanels
    /\ pendingHashChanges = 0
    /\ Len(visited) <= MaxBackDepth
    /\ Len(searchRun.trail) < MaxBackDepth
    /\ LET h == BackTarget(locationHash, activeDistrictContext, selectedDistrictLayer,
                           appHistory)
       IN  /\ districtsLayerShown' = IF h = "#districts" THEN TRUE ELSE districtsLayerShown
           /\ locationHash' = HashAfterAssign(h)
           /\ pendingHashChanges' =
                 IF HashAfterAssign(h) = locationHash
                 THEN pendingHashChanges ELSE pendingHashChanges + 1
    /\ searchRun' = [searchRun EXCEPT !.trail = Append(@, locationHash)]
    /\ UNCHANGED << isDataLoaded, appHistory, lastListHash, activeDistrictContext,
                    districtFeatureMap, bldgIdToDistrict, selectedBuildingLayer,
                    selectedDistrictLayer, sheetPanel, rightSheetCard, surveyLayer,
                    searchInputValue, isMapFollowEnabled, districtsTimers,
                    showPropertyTimers, refreshTimers, visited, roundTrip,
                    currentDropdownResults, highlightVars, mapMoveTimer, indexBuild,
                    mapBounds, currentNavigationList >>

\* the hashes of the back-button session
BackTokens ==
    { "", "#survey/color/Red", "#survey/color", "#survey", "#district/Elm%20Park",
      "#districts", "#landmarks", "#property/1" }

NavigateForwardTo == NavigateTo(BackTokens)

InitBack ==
    /\ InitApp
    /\ roundTrip = Idle
    /\ indexBuild = NoBuild
    /\ searchRun = NoBacks
    /\ locationHash \in BackTokens

NextBack ==
    \/ LoadComplete
    \/ NavigateForwardTo
    \/ HashChangeDropped
    \/ HashChange
    \/ DistrictsTimerFires
    \/ BackButton

SpecBack == InitBack /\ [][NextBack]_vars

(***************************************************************************)
(* C39: the back button terminates                                         *)
(***************************************************************************)
\* the routes whose panel has a back button
BackRoutes ==
    { "SurveyDimensionValue", "SurveyDimension", "SurveyRoot", "District",
      "DistrictsList", "Landmarks" }

\* the hash one step up from a route with a back button
ParentHash(route) ==
    IF route.variant = "SurveyDimensionValue" THEN "#survey/" \o route.dim
    ELSE IF route.variant = "SurveyDimension" THEN "#survey"
    ELSE IF route.variant = "District" THEN "#districts"
    ELSE ""

\* how many steps up Home is
Height(route) ==
    IF route.variant = "SurveyDimensionValue" THEN 3
    ELSE IF route.variant \in { "SurveyDimension", "District" } THEN 2
    ELSE IF route.variant \in { "SurveyRoot", "DistrictsList", "Landmarks" } THEN 1
    ELSE 0

\* C39: from every route whose panel has a back button a back action goes one
\* step up, along SurveyDimensionValue(dim, v) -> SurveyDimension(dim) ->
\* SurveyRoot -> Home, District(name) -> DistrictsList -> Home and Landmarks ->
\* Home, so that repeated back actions reach Home after at most 3 steps; no
\* back action leaves the route unchanged.
C39_BackGoesUp ==
    [][ (BackButton /\ ParseRoute(locationHash).variant \in BackRoutes) =>
            /\ locationHash' # locationHash
            /\ locationHash' = ParentHash(ParseRoute(locationHash))
            /\ Height(ParseRoute(locationHash)) <= 3
            /\ Height(ParseRoute(locationHash')) = Height(ParseRoute(locationHash)) - 1
      ]_vars

\* three back actions have led from a survey detail panel to Home
C39_Witness ==
    /\ searchRun = [stage |-> "back",
                    trail |-> << "#survey/color/Red", "#survey/color", "#survey" >>]
    /\ visited = << "#survey/color/Red", "#survey/color", "#survey", "" >>
    /\ pendingHashChanges = 0
    /\ sheetPanel.kind = "default"

\* two back actions have led from a district to Home
C39_WitnessDistrict ==
    /\ searchRun = [stage |-> "back", trail |-> << "#district/Elm%20Park", "#districts" >>]
    /\ visited = << "#district/Elm%20Park", "#districts", "" >>
    /\ pendingHashChanges = 0

(***************************************************************************)
(* C40: refreshPanel and the "Follow map" button are no navigations        *)
(***************************************************************************)
\* the step runs refreshPanel: a click on "Follow map", or the timer of the
\* moveend listener on loaded data
RunsRefreshPanel == FollowMapToggle \/ (isDataLoaded /\ MapMoveRefresh)

\* the most recent entry of the history below its top that is no property
\* hash; Home when there is none
RECURSIVE RecentListEntry(_, _)
RecentListEntry(hist, below) ==
    IF below <= 1 THEN ""
    ELSE IF StartsWith(hist[below - 1], "#property/") THEN RecentListEntry(hist, below - 1)
    ELSE hist[below - 1]

\* the panel the router builds for a route
PanelOfRoute(route) ==
    CASE route.variant = "Search" -> Panel("search", "", route.text)
      [] route.variant = "Landmarks" -> Panel("landmarks", "", "")
      [] route.variant = "DistrictsList" -> Panel("districts", "", "")
      [] route.variant = "District" -> Panel("district", "", route.text)
      [] route.variant = "SurveyRoot" -> Panel("survey", "", "")
      [] route.variant = "SurveyDimension" -> Panel("list", route.dim, "")
      [] route.variant = "SurveyDimensionValue" -> Panel("detail", route.dim, route.text)
      [] OTHER -> Panel("default", "", "")

\* the step builds the panel of the route, at once or, for the districts
\* list, by the 40 ms timer it starts
Rebuilds(route) ==
    IF route.variant = "DistrictsList" THEN refreshTimers' = refreshTimers + 1
    ELSE sheetPanel' = PanelOfRoute(route)

\* C40: refreshPanel and the "Follow map" button are no navigations: they
\* leave the history stack and activeDistrictContext unchanged, and on a
\* Property route they rebuild the panel of the most recent non-property
\* history entry below the top (Home when there is none).
C40_RefreshIsNoNavigation ==
    [][ RunsRefreshPanel =>
            /\ appHistory' = appHistory
            /\ activeDistrictContext' = activeDistrictContext
            /\ StartsWith(locationHash, "#property/") =>
                  Rebuilds(ParseRoute(RecentListEntry(appHistory, Len(appHistory)))) ]_vars

\* the first half: neither the history, nor the context, nor the hash changes
C40_RefreshKeepsHistory ==
    [][ RunsRefreshPanel =>
            /\ appHistory' = appHistory
            /\ activeDistrictContext' = activeDistrictContext
            /\ locationHash' = locationHash
            /\ pendingHashChanges' = pendingHashChanges ]_vars

\* the second half for the entries refreshPanel has a branch for: every entry
\* but a Search hash, a District hash without a district and a survey hash
\* that matches no panel
C40_RefreshRebuildsKnownEntries ==
    [][ ( /\ RunsRefreshPanel
          /\ StartsWith(locationHash, "#property/")
          /\ \/ ParseRoute(RecentListEntry(appHistory, Len(appHistory))).variant \in
                    { "Home", "Landmarks", "DistrictsList", "SurveyRoot",
                      "SurveyDimension", "SurveyDimensionValue" }
             \/ /\ ParseRoute(RecentListEntry(appHistory, Len(appHistory))).variant
                        = "District"
                /\ DistrictExists(
                       ParseRoute(RecentListEntry(appHistory, Len(appHistory))).text) )
            => Rebuilds(ParseRoute(RecentListEntry(appHistory, Len(appHistory)))) ]_vars

====
